---- MODULE Spec2Model ----
(***************************************************************************)
(* Beacon SME assessment (src/main.py): the scoring engine                 *)
(* calculate_beacon_score, the rule-based advisory builder, the LLM        *)
(* narrative polish and the generate_report request handler.               *)
(*                                                                         *)
(* Strings are the source's strings with two transliterations, because the *)
(* module is ASCII: the plus-minus sign of "Stable (+-5%)" and the emoji   *)
(* that prefixes each readiness label (written "(trophy)", "(muscle)",     *)
(* "(hammer)", "(warning)", "(siren)"); the emoji of one heading and the   *)
(* long dashes of the prose are left out.                                  *)
(*                                                                         *)
(* The last part models the legacy scorecard (src/app.py): its four        *)
(* scoring functions and the generate_full_report handler.                 *)
(***************************************************************************)
EXTENDS Integers, Sequences, FiniteSets, TLC

VARIABLES
    pc,                   \* position of the request in its handler
    data,                 \* the validated BeaconSMEInput of the request
    score,                \* the BeaconScore (NoScore before scoring)
    structured_advisory,  \* build_structured_advisory(score)
    advisory,             \* the advisory the handler goes on with
    llm,                  \* state of the chat.completions.create call
    cancel_requested,     \* a cancellation of the request task was asked for
    db_saved,             \* the supabase insert succeeded
    email_sent,           \* send_results_email's return value
    result,               \* what the handler returned (NoResult before)
    resend_api_key,       \* RESEND_API_KEY is set in the environment
    payload,              \* the dict email_results receives (NoPayload elsewhere)
    calls                 \* the supabase inserts and mail sends attempted so far

vars == <<pc, data, score, structured_advisory, advisory, llm,
          cancel_requested, db_saved, email_sent, result, resend_api_key,
          payload, calls>>

Min(a, b) == IF a <= b THEN a ELSE b

Range(s) == {s[i] : i \in DOMAIN s}

(***************************************************************************)
(* INPUT SCHEMA: the Literal domain of every enumerated field, in the      *)
(* order the schema lists the values.                                      *)
(***************************************************************************)
Schema ==
    [ industry |-> <<"Retail/Trade", "Food & Beverage", "Professional Services",
                     "Beauty & Personal Care", "Logistics & Transportation",
                     "Manufacturing/Production", "Hospitality", "Construction/Trades",
                     "Healthcare Services", "Education/Training", "Agriculture", "Other">>,
      yearsInBusiness |-> <<"Less than 1 year", "1-3 years", "3-5 years",
                            "5-10 years", "10+ years">>,
      cashFlow |-> <<"Consistent surplus", "Breaking even",
                     "Unpredictable (some surplus, some deficit)",
                     "Burning cash consistently", "Don't know">>,
      profitMargin |-> <<"30%+", "20-30%", "10-20%", "5-10%",
                         "Less than 5% or negative", "Don't know">>,
      cashRunway |-> <<"6+ months", "3-6 months", "1-3 months",
                       "Less than 1 month", "Would close immediately">>,
      paymentSpeed |-> <<"Same day (cash/instant)", "1-7 days", "8-30 days",
                         "31-60 days", "60+ days">>,
      repeatCustomerRate |-> <<"70%+ repeat customers", "50-70% repeat", "30-50% repeat",
                               "10-30% repeat", "Less than 10% repeat">>,
      acquisitionChannel |-> <<"Referrals/word-of-mouth", "Walk-ins/location visibility",
                               "Organic social media", "Repeat business relationships",
                               "Paid advertising", "Cold outreach", "Don't know">>,
      pricingPower |-> <<"Tested increases successfully", "Most customers would stay",
                         "Some would leave but still profitable",
                         "Would lose most customers", "Don't know">>,
      founderDependency |-> <<"Runs 2+ weeks without me", "Can step away 1 week",
                              "2-3 days max", "Can't miss even 1 day", "Must be there daily">>,
      processDocumentation |-> <<"Comprehensive written processes",
                                 "Some key processes documented",
                                 "Trained others, mostly in my head",
                                 "Everything in my head only", "No consistent processes">>,
      inventoryTracking |-> <<"Digital real-time system", "Regular manual/spreadsheet",
                              "Weekly physical count", "Only when running low",
                              "Don't track", "Not applicable (service business)">>,
      expenseAwareness |-> <<"Know exact amounts and percentages", "Know roughly",
                             "General idea", "Would have to look up", "No idea">>,
      profitPerProduct |-> <<"Know margins on each offering",
                             "Good sense of what's profitable",
                             "Know revenue only, not profit", "Haven't analyzed",
                             "All seem about the same">>,
      pricingStrategy |-> <<"Cost + margin + market research", "Match competitors",
                            "Cost + markup (no market analysis)", "What feels right",
                            "No strategy">>,
      businessTrajectory |-> <<"Growing 20%+", "Growing 5-20%", "Stable (+-5%)",
                               "Declining 5-20%", "Declining 20%+", "Less than 1 year old">>,
      revenueDiversification |-> <<"4+ streams/customer types", "2-3 streams",
                                   "Primary + side income", "Single product/customer type",
                                   "Dependent on 1-2 major customers">>,
      digitalPayments |-> <<"80%+ digital", "50-80% digital", "20-50% digital",
                            "Less than 20% digital">>,
      formalRegistration |-> <<"Fully registered and tax compliant",
                               "Registered, behind on taxes",
                               "In process of registering", "Not registered">>,
      infrastructure |-> <<"Consistent power/internet/supply",
                           "Mostly reliable with backups",
                           "Frequent disruptions", "Major challenges daily">>,
      bankingRelationship |-> <<"Strong, accessed loans/credit", "Accounts but no credit",
                                "Minimal interaction", "No bank relationship">>,
      primaryPainPoint |-> <<"Getting more customers/sales",
                             "Managing cash flow/getting paid",
                             "Hiring or managing staff", "Keeping costs under control",
                             "Too busy/overwhelmed", "Inconsistent quality/delivery",
                             "Don't know where to focus", "Competition/market changes",
                             "Actually doing well, want to optimize">> ]

(***************************************************************************)
(* SCORING MAPS                                                            *)
(***************************************************************************)
\* the cash-flow table with one point for a business that burns cash
CASH_FLOW_MAP_BurningScoresOne ==
    "Consistent surplus" :> 5 @@ "Breaking even" :> 3 @@
    "Unpredictable (some surplus, some deficit)" :> 2 @@
    "Burning cash consistently" :> 1 @@ "Don't know" :> 0

CASH_FLOW_MAP ==
    "Consistent surplus" :> 5 @@ "Breaking even" :> 3 @@
    "Unpredictable (some surplus, some deficit)" :> 2 @@
    "Burning cash consistently" :> 0 @@ "Don't know" :> 0

PROFIT_MARGIN_MAP ==
    "30%+" :> 5 @@ "20-30%" :> 4 @@ "10-20%" :> 3 @@
    "5-10%" :> 2 @@ "Less than 5% or negative" :> 1 @@ "Don't know" :> 0

CASH_RUNWAY_MAP ==
    "6+ months" :> 5 @@ "3-6 months" :> 4 @@ "1-3 months" :> 2 @@
    "Less than 1 month" :> 1 @@ "Would close immediately" :> 0

PAYMENT_SPEED_MAP ==
    "Same day (cash/instant)" :> 5 @@ "1-7 days" :> 4 @@
    "8-30 days" :> 3 @@ "31-60 days" :> 1 @@ "60+ days" :> 0

REPEAT_RATE_MAP ==
    "70%+ repeat customers" :> 5 @@ "50-70% repeat" :> 4 @@
    "30-50% repeat" :> 3 @@ "10-30% repeat" :> 2 @@ "Less than 10% repeat" :> 0

ACQUISITION_MAP ==
    "Referrals/word-of-mouth" :> 5 @@ "Repeat business relationships" :> 5 @@
    "Walk-ins/location visibility" :> 3 @@ "Organic social media" :> 3 @@
    "Paid advertising" :> 2 @@ "Cold outreach" :> 1 @@ "Don't know" :> 0

PRICING_POWER_MAP ==
    "Tested increases successfully" :> 5 @@ "Most customers would stay" :> 4 @@
    "Some would leave but still profitable" :> 3 @@
    "Would lose most customers" :> 1 @@ "Don't know" :> 1

FOUNDER_DEPENDENCY_MAP ==
    "Runs 2+ weeks without me" :> 5 @@ "Can step away 1 week" :> 4 @@
    "2-3 days max" :> 3 @@ "Can't miss even 1 day" :> 1 @@ "Must be there daily" :> 0

PROCESS_DOC_MAP ==
    "Comprehensive written processes" :> 5 @@ "Some key processes documented" :> 4 @@
    "Trained others, mostly in my head" :> 2 @@
    "Everything in my head only" :> 1 @@ "No consistent processes" :> 0


\* the inventory table without the schema's service-business answer
INVENTORY_MAP_NoServiceEntry ==
    "Digital real-time system" :> 5 @@ "Regular manual/spreadsheet" :> 4 @@
    "Weekly physical count" :> 3 @@ "Only when running low" :> 1 @@
    "Don't track" :> 0

INVENTORY_MAP ==
    "Digital real-time system" :> 5 @@ "Regular manual/spreadsheet" :> 4 @@
    "Weekly physical count" :> 3 @@ "Only when running low" :> 1 @@
    "Don't track" :> 0 @@ "Not applicable (service business)" :> 4

EXPENSE_AWARENESS_MAP ==
    "Know exact amounts and percentages" :> 5 @@ "Know roughly" :> 4 @@
    "General idea" :> 3 @@ "Would have to look up" :> 1 @@ "No idea" :> 0

PROFIT_PER_PRODUCT_MAP ==
    "Know margins on each offering" :> 5 @@ "Good sense of what's profitable" :> 4 @@
    "Know revenue only, not profit" :> 2 @@
    "Haven't analyzed" :> 1 @@ "All seem about the same" :> 1

PRICING_STRATEGY_MAP ==
    "Cost + margin + market research" :> 5 @@ "Match competitors" :> 3 @@
    "Cost + markup (no market analysis)" :> 2 @@
    "What feels right" :> 1 @@ "No strategy" :> 0

TRAJECTORY_MAP ==
    "Growing 20%+" :> 5 @@ "Growing 5-20%" :> 4 @@ "Stable (+-5%)" :> 3 @@
    "Declining 5-20%" :> 1 @@ "Declining 20%+" :> 0 @@ "Less than 1 year old" :> 2

DIVERSIFICATION_MAP ==
    "4+ streams/customer types" :> 5 @@ "2-3 streams" :> 4 @@
    "Primary + side income" :> 3 @@ "Single product/customer type" :> 2 @@
    "Dependent on 1-2 major customers" :> 0

DIGITAL_PAYMENTS_MAP ==
    "80%+ digital" :> 5 @@ "50-80% digital" :> 4 @@
    "20-50% digital" :> 2 @@ "Less than 20% digital" :> 1

FORMALIZATION_MAP ==
    "Fully registered and tax compliant" :> 5 @@ "Registered, behind on taxes" :> 3 @@
    "In process of registering" :> 2 @@ "Not registered" :> 0

INFRASTRUCTURE_MAP ==
    "Consistent power/internet/supply" :> 5 @@ "Mostly reliable with backups" :> 4 @@
    "Frequent disruptions" :> 2 @@ "Major challenges daily" :> 0

BANKING_MAP ==
    "Strong, accessed loans/credit" :> 5 @@ "Accounts but no credit" :> 3 @@
    "Minimal interaction" :> 1 @@ "No bank relationship" :> 0

(***************************************************************************)
(* Python floats.  calculate_beacon_score works on IEEE-754 doubles, and   *)
(* the readiness level is decided on the unrounded sum, so the rounding of *)
(* every operation is modelled exactly.  A double x >= 0 is the record     *)
(* [n, d] with                                                             *)
(*        x = n / FloatDen + d / (FloatDen * 2^60)                         *)
(* n / FloatDen being the result of the same computation over the          *)
(* rationals and d the accumulated rounding error, in units small enough   *)
(* that every double below 2^8 is represented exactly.  A double in        *)
(* [2^k, 2^(k+1)) is a multiple of its ulp 2^(k-52), that is of            *)
(* FloatDen * 2^(k+8) units.                                               *)
(***************************************************************************)
FloatDen == 600

Float(n, d) == [n |-> n, d |-> d]

RECURSIVE PowModRec(_, _)
PowModRec(j, m) == IF j = 0 THEN 1 % m ELSE (2 * PowModRec(j - 1, m)) % m

\* the powers of two modulo the moduli the scoring arithmetic uses
PowModTable ==
    [ m \in {FloatDen, 2 * FloatDen, 20 * FloatDen, 40 * FloatDen} |->
        [ j \in 40..64 |-> PowModRec(j, m) ] ]

\* 2^j modulo m
PowMod(j, m) ==
    IF m \in DOMAIN PowModTable /\ j \in DOMAIN PowModTable[m]
    THEN PowModTable[m][j]
    ELSE PowModRec(j, m)

\* (n / FloatDen + d / (FloatDen * 2^60)) / c >= 2^k
GeqPow2(n, d, c, k) ==
    LET lhs == IF k >= 0 THEN n ELSE n * 2^(0 - k)
        rhs == IF k >= 0 THEN c * FloatDen * 2^k ELSE c * FloatDen
    IN  lhs > rhs \/ (lhs = rhs /\ d >= 0)

\* the exponent k of the binade [2^k, 2^(k+1)) the value lies in
Binade(n, d, c) ==
    CHOOSE k \in (0 - 8)..7 :
        GeqPow2(n, d, c, k) /\ (k = 7 \/ ~GeqPow2(n, d, c, k + 1))

(* The double nearest to (n / FloatDen + d / (FloatDen * 2^60)) / c, ties   *)
(* to even: the result of one correctly rounded IEEE operation.  r is the  *)
(* distance of the exact value above the next lower double, q the parity   *)
(* of that double's significand, both in units of 1 / (c * FloatDen * 2^60). *)
Nearest(n, d, c) ==
    IF n = 0 /\ d = 0 THEN Float(0, 0)
    ELSE
      LET k  == Binade(n, d, c)
          P  == 2^(k + 8)
          m1 == c * FloatDen
          m2 == 2 * m1
          U  == m1 * P
          r  == (P * (((n % m1) * PowMod(52 - k, m1)) % m1) + d) % U
          q  == ((P * (((n % m2) * PowMod(52 - k, m2)) % m2) + d - r) % (2 * U)) \div U
          down == (2 * r < U) \/ (2 * r = U /\ q = 0)
          dd == IF down THEN d - r ELSE d - r + U
      IN  Float(n \div c, dd \div c)

\* one operation: its operands are values, each evaluated once
RoundNearest(n, d, c) ==
    CHOOSE x \in { Nearest(operand[1], operand[2], c) : operand \in {<<n, d>>} } : TRUE

\* a / b of two Python ints (true division)
IntDiv(a, b) == RoundNearest((a * FloatDen) \div b, 0, 1)

\* x * c, x a float and c an int
FMulInt(x, c) == RoundNearest(x.n * c, x.d * c, 1)

\* x / c, x a float and c an int
FDivInt(x, c) == RoundNearest(x.n, x.d, c)

\* x + y of two floats
FAdd(x, y) == RoundNearest(x.n + y.n, x.d + y.d, 1)

\* x >= i, x a float and i an int
FGeInt(x, i) == x.n > i * FloatDen \/ (x.n = i * FloatDen /\ x.d >= 0)

\* x <= i, x a float and i an int
FLeInt(x, i) == x.n < i * FloatDen \/ (x.n = i * FloatDen /\ x.d <= 0)

(* round(x, 1): the one-decimal number nearest to x (ties to even),        *)
(* returned as its number of tenths; 14.7 is 147.  Python returns the      *)
(* double nearest to that decimal, which compares with an integer          *)
(* threshold exactly as the decimal does.                                  *)
Round1(x) ==
    LET q   == (10 * x.n) \div FloatDen
        rho == (10 * x.n) % FloatDen
    IN  IF 2 * rho < FloatDen THEN q
        ELSE IF 2 * rho > FloatDen THEN q + 1
        ELSE IF x.d > 0 THEN q + 1
        ELSE IF x.d < 0 THEN q
        ELSE IF q % 2 = 0 THEN q ELSE q + 1

\* the double a one-decimal field holds: t tenths is the float t / 10
FromTenths(t) == IntDiv(t, 10)

(***************************************************************************)
(* SCORING ENGINE                                                          *)
(***************************************************************************)
\* the table each scored answer field is looked up in
ScoringTable ==
    [ cashFlow |-> CASH_FLOW_MAP, profitMargin |-> PROFIT_MARGIN_MAP,
      cashRunway |-> CASH_RUNWAY_MAP, paymentSpeed |-> PAYMENT_SPEED_MAP,
      repeatCustomerRate |-> REPEAT_RATE_MAP, acquisitionChannel |-> ACQUISITION_MAP,
      pricingPower |-> PRICING_POWER_MAP,
      founderDependency |-> FOUNDER_DEPENDENCY_MAP,
      processDocumentation |-> PROCESS_DOC_MAP, inventoryTracking |-> INVENTORY_MAP,
      expenseAwareness |-> EXPENSE_AWARENESS_MAP,
      profitPerProduct |-> PROFIT_PER_PRODUCT_MAP,
      pricingStrategy |-> PRICING_STRATEGY_MAP,
      businessTrajectory |-> TRAJECTORY_MAP,
      revenueDiversification |-> DIVERSIFICATION_MAP,
      digitalPayments |-> DIGITAL_PAYMENTS_MAP, formalRegistration |-> FORMALIZATION_MAP,
      infrastructure |-> INFRASTRUCTURE_MAP, bankingRelationship |-> BANKING_MAP ]

\* a table lookup MAP[data.field] raises KeyError when the key is missing
RaisesKeyError(d) ==
    \E f \in DOMAIN ScoringTable : d[f] \notin DOMAIN ScoringTable[f]

\* the grade steps with B+ starting above 80 instead of at 80
get_grade_AboveEighty(pct) ==
    IF pct >= 900 THEN "A"
    ELSE IF pct > 800 THEN "B+"
    ELSE IF pct >= 700 THEN "B"
    ELSE IF pct >= 600 THEN "C+"
    ELSE IF pct >= 500 THEN "C"
    ELSE "D"

get_grade(pct) ==
    IF pct >= 900 THEN "A"
    ELSE IF pct >= 800 THEN "B+"
    ELSE IF pct >= 700 THEN "B"
    ELSE IF pct >= 600 THEN "C+"
    ELSE IF pct >= 500 THEN "C"
    ELSE "D"

fh_raw(d) == CASH_FLOW_MAP[d.cashFlow] + PROFIT_MARGIN_MAP[d.profitMargin]
             + CASH_RUNWAY_MAP[d.cashRunway] + PAYMENT_SPEED_MAP[d.paymentSpeed]

fh_score(d) == FMulInt(IntDiv(fh_raw(d), 20), 20)

cs_raw(d) == REPEAT_RATE_MAP[d.repeatCustomerRate] + ACQUISITION_MAP[d.acquisitionChannel]
             + PRICING_POWER_MAP[d.pricingPower]


\* cs_score normalised to 25 points, the scale of the legacy scorecard
cs_score_Scale25(d) == FMulInt(IntDiv(cs_raw(d), 15), 25)

cs_score(d) == FMulInt(IntDiv(cs_raw(d), 15), 20)

om_raw(d) == FOUNDER_DEPENDENCY_MAP[d.founderDependency]
             + PROCESS_DOC_MAP[d.processDocumentation]
             + INVENTORY_MAP[d.inventoryTracking]

om_score(d) == FMulInt(IntDiv(om_raw(d), 15), 20)

fi_raw(d) == EXPENSE_AWARENESS_MAP[d.expenseAwareness]
             + PROFIT_PER_PRODUCT_MAP[d.profitPerProduct]
             + PRICING_STRATEGY_MAP[d.pricingStrategy]

fi_score(d) == FMulInt(IntDiv(fi_raw(d), 15), 20)

gr_base(d) == TRAJECTORY_MAP[d.businessTrajectory]
              + DIVERSIFICATION_MAP[d.revenueDiversification]


\* the growth base scaled to the whole 20 points instead of its 12
gr_base_score_Scale20(d) == FMulInt(IntDiv(gr_base(d), 10), 20)

gr_base_score(d) == FMulInt(IntDiv(gr_base(d), 10), 12)

context_raw(d) ==
    FAdd(FAdd(FAdd(FMulInt(IntDiv(DIGITAL_PAYMENTS_MAP[d.digitalPayments], 5), 2),
                   FMulInt(IntDiv(FORMALIZATION_MAP[d.formalRegistration], 5), 3)),
              FMulInt(IntDiv(INFRASTRUCTURE_MAP[d.infrastructure], 5), 2)),
         FMulInt(IntDiv(BANKING_MAP[d.bankingRelationship], 5), 1))

gr_score(d) == FAdd(gr_base_score(d), context_raw(d))

\* total = fh_score + cs_score + om_score + fi_score + gr_score, left to right
SumScores(fh, cs, om, fi, gr) == FAdd(FAdd(FAdd(FAdd(fh, cs), om), fi), gr)

total(d) == SumScores(fh_score(d), cs_score(d), om_score(d), fi_score(d), gr_score(d))

LEVEL_SCALE_READY == <<"(trophy)", "Scale-Ready">>
LEVEL_STABLE      == <<"(muscle)", "Stable", "Foundation">>
LEVEL_BUILDING    == <<"(hammer)", "Building", "Blocks">>
LEVEL_SURVIVAL    == <<"(warning)", "Survival", "Mode">>
LEVEL_RED_ALERT   == <<"(siren)", "Red", "Alert">>

\* the readiness level, decided on the unrounded total
level(t) ==
    IF FGeInt(t, 85) THEN LEVEL_SCALE_READY
    ELSE IF FGeInt(t, 70) THEN LEVEL_STABLE
    ELSE IF FGeInt(t, 50) THEN LEVEL_BUILDING
    ELSE IF FGeInt(t, 30) THEN LEVEL_SURVIVAL
    ELSE LEVEL_RED_ALERT

\* the list a chain of "if cond: flags.append(tag)" builds
Appended(rules) ==
    LET RECURSIVE App(_)
        App(i) == IF i = 0 THEN <<>>
                  ELSE IF rules[i][1] THEN Append(App(i - 1), rules[i][2])
                  ELSE App(i - 1)
    IN  App(Len(rules))

\* the runway predicate as an elif of the cash-flow predicate
critical_flags_RunwayElif(d) ==
    Appended(<<
      <<d.cashFlow \in {"Burning cash consistently", "Don't know"}, "CASH_CRISIS">>,
      <<d.cashFlow \notin {"Burning cash consistently", "Don't know"}
        /\ d.cashRunway \in {"Less than 1 month", "Would close immediately"},
        "RUNWAY_CRITICAL">>,
      <<d.profitMargin \in {"Less than 5% or negative", "Don't know"}, "NO_PROFIT_VISIBILITY">>,
      <<d.founderDependency = "Must be there daily", "FOUNDER_BURNOUT_RISK">>,
      <<d.formalRegistration = "Not registered", "INFORMAL_OPERATIONS">>,
      <<d.repeatCustomerRate = "Less than 10% repeat", "NO_CUSTOMER_LOYALTY">> >>)

critical_flags(d) ==
    Appended(<<
      <<d.cashFlow \in {"Burning cash consistently", "Don't know"}, "CASH_CRISIS">>,
      <<d.cashRunway \in {"Less than 1 month", "Would close immediately"}, "RUNWAY_CRITICAL">>,
      <<d.profitMargin \in {"Less than 5% or negative", "Don't know"}, "NO_PROFIT_VISIBILITY">>,
      <<d.founderDependency = "Must be there daily", "FOUNDER_BURNOUT_RISK">>,
      <<d.formalRegistration = "Not registered", "INFORMAL_OPERATIONS">>,
      <<d.repeatCustomerRate = "Less than 10% repeat", "NO_CUSTOMER_LOYALTY">> >>)

\* the score-based predicate as a strict comparison, fh_score > 16
opportunity_flags_Above16(d, fh) ==
    Appended(<<
      <<d.pricingPower \in {"Tested increases successfully", "Most customers would stay"},
        "PRICING_POWER">>,
      <<d.repeatCustomerRate = "70%+ repeat customers", "STRONG_RETENTION">>,
      <<d.acquisitionChannel \in {"Referrals/word-of-mouth", "Repeat business relationships"},
        "ORGANIC_GROWTH">>,
      <<d.processDocumentation = "Comprehensive written processes", "SYSTEMS_READY">>,
      <<~FLeInt(fh, 16), "FINANCIAL_DISCIPLINE">> >>)

\* fh is the unrounded fh_score
opportunity_flags(d, fh) ==
    Appended(<<
      <<d.pricingPower \in {"Tested increases successfully", "Most customers would stay"},
        "PRICING_POWER">>,
      <<d.repeatCustomerRate = "70%+ repeat customers", "STRONG_RETENTION">>,
      <<d.acquisitionChannel \in {"Referrals/word-of-mouth", "Repeat business relationships"},
        "ORGANIC_GROWTH">>,
      <<d.processDocumentation = "Comprehensive written processes", "SYSTEMS_READY">>,
      <<FGeInt(fh, 16), "FINANCIAL_DISCIPLINE">> >>)

(***************************************************************************)
(* INSIGHT GENERATORS                                                      *)
(***************************************************************************)
\* what one "if c1: append(s1) elif c2: append(s2) ..." chain appends
IfElif(rules) ==
    LET hit == {i \in DOMAIN rules : rules[i][1]}
    IN  IF hit = {} THEN <<>>
        ELSE <<rules[CHOOSE i \in hit : \A j \in hit : i <= j][2]>>

_generate_fh_insights(d) ==
    IfElif(<<
      <<d.cashFlow = "Consistent surplus",
        "Strong cash flow discipline - foundation for growth">>,
      <<d.cashFlow = "Burning cash consistently",
        "Burning cash monthly - immediate action required">>,
      <<d.cashFlow = "Don't know",
        "No cash flow tracking - serious financial risk">> >>)
    \o IfElif(<<
      <<d.profitMargin \in {"30%+", "20-30%"},
        "Healthy profit margins - room to invest and weather storms">>,
      <<d.profitMargin \in {"5-10%", "Less than 5% or negative"},
        "Thin margins - vulnerable to any cost increases">>,
      <<d.profitMargin = "Don't know",
        "Unknown profitability - you cannot make informed decisions">> >>)
    \o IfElif(<<
      <<d.cashRunway \in {"Less than 1 month", "Would close immediately"},
        "CRITICAL: Less than 30 days cash runway">>,
      <<d.cashRunway = "6+ months",
        "Strong cash reserves - positioned for opportunities">> >>)
    \o IfElif(<<
      <<d.paymentSpeed \in {"31-60 days", "60+ days"},
        "Slow payment collection is straining cash flow">>,
      <<d.paymentSpeed = "Same day (cash/instant)",
        "Fast payment collection - excellent cash velocity">> >>)

_generate_cs_insights(d) ==
    IfElif(<<
      <<d.repeatCustomerRate = "70%+ repeat customers",
        "Exceptional customer loyalty - strong retention foundation">>,
      <<d.repeatCustomerRate = "Less than 10% repeat",
        "Low repeat business - acquisition treadmill is expensive">> >>)
    \o IfElif(<<
      <<d.acquisitionChannel \in {"Referrals/word-of-mouth", "Repeat business relationships"},
        "Organic acquisition - sustainable and low-cost growth engine">>,
      <<d.acquisitionChannel = "Paid advertising",
        "Paid-dependent growth - vulnerable if ad budget must be cut">>,
      <<d.acquisitionChannel = "Don't know",
        "Unknown acquisition source - you cannot optimize what you don't track">> >>)
    \o IfElif(<<
      <<d.pricingPower = "Tested increases successfully",
        "Proven pricing power - differentiated from competition">>,
      <<d.pricingPower = "Would lose most customers",
        "Commoditized offering - competing on price alone">> >>)

_generate_om_insights(d) ==
    IfElif(<<
      <<d.founderDependency = "Must be there daily",
        "Business cannot run without you - burnout risk and zero scale potential">>,
      <<d.founderDependency = "Runs 2+ weeks without me",
        "Business independence achieved - scalable operations">> >>)
    \o IfElif(<<
      <<d.processDocumentation = "Comprehensive written processes",
        "Strong documentation - ready to train, delegate, and scale">>,
      <<d.processDocumentation \in {"Everything in my head only", "No consistent processes"},
        "Tribal knowledge only - vulnerable to any key person leaving">> >>)
    \o IfElif(<<
      <<d.inventoryTracking = "Digital real-time system",
        "Real-time inventory visibility - optimal stock management">>,
      <<d.inventoryTracking = "Don't track",
        "No inventory tracking - likely experiencing costly stockouts or overstock">> >>)

_generate_fi_insights(d) ==
    IfElif(<<
      <<d.expenseAwareness = "Know exact amounts and percentages",
        "Strong cost control discipline - ready to optimize">>,
      <<d.expenseAwareness \in {"Would have to look up", "No idea"},
        "Weak expense visibility - almost certainly leaving money on the table">> >>)
    \o IfElif(<<
      <<d.profitPerProduct = "Know margins on each offering",
        "Margin awareness - you can focus effort on your most profitable offerings">>,
      <<d.profitPerProduct \in {"Haven't analyzed", "All seem about the same"},
        "No margin analysis - you may be subsidizing loss-makers with your winners">> >>)
    \o IfElif(<<
      <<d.pricingStrategy = "Cost + margin + market research",
        "Strategic pricing approach - maximizing value capture">>,
      <<d.pricingStrategy \in {"What feels right", "No strategy"},
        "Arbitrary pricing - you are likely undercharging or mispricing">> >>)

_generate_gr_insights(d) ==
    IfElif(<<
      <<d.businessTrajectory \in {"Growing 20%+", "Growing 5-20%"},
        "Positive growth trajectory - strong market validation">>,
      <<d.businessTrajectory \in {"Declining 5-20%", "Declining 20%+"},
        "Declining revenue - urgent strategic review needed">> >>)
    \o IfElif(<<
      <<d.revenueDiversification = "Dependent on 1-2 major customers",
        "Customer concentration risk - one lost client could cripple the business">>,
      <<d.revenueDiversification = "4+ streams/customer types",
        "Well-diversified revenue - resilient to market shifts">> >>)
    \o IfElif(<<
      <<d.digitalPayments \in {"80%+ digital", "50-80% digital"},
        "Strong digital payment adoption - good transaction visibility">>,
      <<d.digitalPayments = "Less than 20% digital",
        "Cash-heavy operations - limited data visibility">> >>)
    \o IfElif(<<
      <<d.formalRegistration = "Fully registered and tax compliant",
        "Fully formalized - eligible for credit, partnerships, and major contracts">>,
      <<d.formalRegistration = "Not registered",
        "Informal operations - locked out of growth capital and corporate clients">> >>)
    \o IfElif(<<
      <<d.infrastructure = "Major challenges daily",
        "Daily infrastructure disruptions are hurting operational efficiency">> >>)
    \o IfElif(<<
      <<d.bankingRelationship = "Strong, accessed loans/credit",
        "Banking access established - growth capital is available to you">> >>)

(***************************************************************************)
(* calculate_beacon_score                                                  *)
(***************************************************************************)
\* score and pct as numbers of tenths, max_score as the int the caller passes
make_cat(name, sc, max_s, insights) ==
    LET pct == Round1(FMulInt(FDivInt(sc, max_s), 100))
    IN  [ name |-> name, score |-> Round1(sc), max_score |-> max_s,
          percentage |-> pct, grade |-> get_grade(pct), insights |-> insights ]

calculate_beacon_score(d) ==
    LET fh == fh_score(d)
        cs == cs_score(d)
        om == om_score(d)
        fi == fi_score(d)
        gr == gr_score(d)
        tot == SumScores(fh, cs, om, fi, gr)
    IN  [ total_score |-> Round1(tot),
          readiness_level |-> level(tot),
          financial_health |->
              make_cat("Financial Health", fh, 20, _generate_fh_insights(d)),
          customer_strength |->
              make_cat("Customer Strength", cs, 20, _generate_cs_insights(d)),
          operational_maturity |->
              make_cat("Operational Maturity", om, 20, _generate_om_insights(d)),
          financial_intelligence |->
              make_cat("Financial Intelligence", fi, 20, _generate_fi_insights(d)),
          growth_resilience |->
              make_cat("Growth & Resilience", gr, 20, _generate_gr_insights(d)),
          primary_pain_point |-> d.primaryPainPoint,
          industry |-> d.industry,
          years_in_business |-> d.yearsInBusiness,
          critical_flags |-> critical_flags(d),
          opportunity_flags |-> opportunity_flags(d, fh) ]

\* the five CategoryScore fields of a BeaconScore, in declaration order
CategoryFields == <<"financial_health", "customer_strength", "operational_maturity",
                    "financial_intelligence", "growth_resilience">>

(***************************************************************************)
(* STEP 1: RULE-BASED ADVISORY BUILDER.  A text is the sequence of its     *)
(* markdown blocks; a fixed block is written as its headline, followed by  *)
(* the sentences that interpolate a value of the score.  Joining texts     *)
(* with "\n\n" is concatenation, joining sections with "\n\n---\n\n" puts  *)
(* the block "---" between them.                                           *)
(***************************************************************************)
\* f"{x}" of a one-decimal float held as tenths: 733 is "73.3"
Fmt(t) == ToString(t \div 10) \o "." \o ToString(t % 10)

RECURSIVE JoinWords(_)
JoinWords(w) == IF Len(w) = 0 THEN ""
                ELSE IF Len(w) = 1 THEN w[1]
                ELSE w[1] \o " " \o JoinWords(Tail(w))

\* label.startswith(key) in place of "key in label"
Contains_AtStart(label, key) ==
    /\ Len(key) <= Len(label)
    /\ \A j \in 1..Len(key) : label[j] = key[j]

\* "key in label" on the words of both
Contains(label, key) ==
    \E i \in 0..(Len(label) - Len(key)) :
        \A j \in 1..Len(key) : label[i + j] = key[j]

\* the keys of the summaries dictionary, in insertion order
SummaryKeys == << <<"Scale-Ready">>, <<"Stable", "Foundation">>, <<"Building", "Blocks">>,
                  <<"Survival", "Mode">>, <<"Red", "Alert">> >>

\* summaries[key]
Summary(key, s) ==
    LET body ==
          IF key = <<"Scale-Ready">> THEN
              "Congratulations! " \o s.financial_health.grade
              \o "-grade financial health, " \o s.customer_strength.grade
              \o "-grade customer relationships"
          ELSE IF key = <<"Stable", "Foundation">> THEN
              "You've built a solid, working business. Your "
              \o Fmt(s.financial_health.percentage) \o "% financial health score and "
              \o Fmt(s.customer_strength.percentage) \o "% customer strength"
          ELSE IF key = <<"Building", "Blocks">> THEN
              "Showing fragility in critical areas. With a "
              \o Fmt(s.total_score) \o "/100 overall score"
          ELSE IF key = <<"Survival", "Mode">> THEN
              "Critical gaps. With a " \o Fmt(s.total_score) \o "/100 score"
          ELSE
              "Urgent challenges. With a " \o Fmt(s.total_score) \o "/100 score"
    IN  << "## Executive Summary",
           "**Your Business:** " \o JoinWords(s.readiness_level),
           body,
           "**Overall Score:** " \o Fmt(s.total_score) \o "/100" >>

_generate_executive_summary(s) ==
    LET hit == {i \in DOMAIN SummaryKeys : Contains(s.readiness_level, SummaryKeys[i])}
    IN  IF hit = {} THEN Summary(<<"Building", "Blocks">>, s)
        ELSE Summary(SummaryKeys[CHOOSE i \in hit : \A j \in hit : i <= j], s)

\* flag_content: the headline of each critical flag's block
flag_content ==
    "CASH_CRISIS" :> "**CASH FLOW EMERGENCY**" @@
    "RUNWAY_CRITICAL" :> "**RUNWAY EXTENSION REQUIRED**" @@
    "NO_PROFIT_VISIBILITY" :> "**PROFIT BLINDNESS**" @@
    "FOUNDER_BURNOUT_RISK" :> "**FOUNDER DEPENDENCY CRISIS**" @@
    "INFORMAL_OPERATIONS" :> "**FORMALIZATION GAP**" @@
    "NO_CUSTOMER_LOYALTY" :> "**RETENTION CRISIS**"

RECURSIVE Priorities(_)
\* the blocks of the flags of the list that flag_content knows, in list order
Priorities(flags) ==
    IF Len(flags) = 0 THEN <<>>
    ELSE (IF Head(flags) \in DOMAIN flag_content THEN <<flag_content[Head(flags)]>>
          ELSE <<>>) \o Priorities(Tail(flags))

\* the note counting the blocks shown, appended from three priorities on
_generate_critical_priorities_NoteFromThree(s) ==
    LET priorities == Priorities(s.critical_flags)
    IN  <<"## Critical Priorities (Next 30 Days)">>
        \o SubSeq(priorities, 1, Min(3, Len(priorities)))
        \o (IF Len(priorities) >= 3
            THEN <<"*Note: You have " \o ToString(Min(3, Len(priorities)))
                   \o " critical issues flagged. Top 3 shown above.*">>
            ELSE <<>>)

_generate_critical_priorities(s) ==
    LET priorities == Priorities(s.critical_flags)
    IN  <<"## Critical Priorities (Next 30 Days)">>
        \o SubSeq(priorities, 1, Min(3, Len(priorities)))
        \o (IF Len(priorities) > 3
            THEN <<"*Note: You have " \o ToString(Len(priorities))
                   \o " critical issues flagged. Top 3 shown above.*">>
            ELSE <<>>)

\* recs: the headline of each category's recommendation block
recs ==
    "Financial Health" :> "### Strengthen Financial Health" @@
    "Customer Strength" :> "### Build Customer Strength" @@
    "Operational Maturity" :> "### Systematize Operations" @@
    "Financial Intelligence" :> "### Sharpen Financial Intelligence" @@
    "Growth & Resilience" :> "### Build Growth & Resilience"

\* recs.get(category_name, ""): the empty text when the name is no key
_get_category_recommendation(category_name, category) ==
    IF category_name \in DOMAIN recs
    THEN << recs[category_name] \o " (Current: " \o category.grade \o ")",
            "**Your situation:** " \o Fmt(category.percentage) \o "% score" >>
    ELSE <<>>

GradeLine(c) == c.name \o ": " \o c.grade \o " (" \o Fmt(c.percentage) \o "%)"

\* pain_recs: headline and the category lines each block interpolates
pain_recs(s) ==
    "Getting more customers/sales" :>
        <<"### Tactical Growth Plan", GradeLine(s.customer_strength),
          GradeLine(s.financial_intelligence)>> @@
    "Managing cash flow/getting paid" :>
        <<"### Cash Flow Rescue Plan", GradeLine(s.financial_health)>> @@
    "Hiring or managing staff" :>
        <<"### Team Management Fix", GradeLine(s.operational_maturity)>> @@
    "Keeping costs under control" :>
        <<"### Cost Optimization Plan", GradeLine(s.financial_intelligence)>> @@
    "Too busy/overwhelmed" :>
        <<"### Founder Liberation Plan", GradeLine(s.operational_maturity)>> @@
    "Inconsistent quality/delivery" :>
        <<"### Quality Control System", GradeLine(s.operational_maturity)>> @@
    "Don't know where to focus" :>
        <<"### Strategic Clarity Framework", GradeLine(s.financial_health),
          GradeLine(s.customer_strength), GradeLine(s.operational_maturity),
          GradeLine(s.financial_intelligence), GradeLine(s.growth_resilience)>> @@
    "Competition/market changes" :>
        <<"### Competitive Response Plan", GradeLine(s.customer_strength)>> @@
    "Actually doing well, want to optimize" :>
        <<"### Optimization Playbook",
          "**Current performance:** " \o Fmt(s.total_score) \o "/100 - "
          \o JoinWords(s.readiness_level)>>

_get_pain_point_recommendation(s) ==
    IF s.primary_pain_point \in DOMAIN pain_recs(s)
    THEN pain_recs(s)[s.primary_pain_point]
    ELSE <<>>

industry_insights ==
    "Retail/Trade" :> "### Industry Insight: Retail/Trade" @@
    "Food & Beverage" :> "### Industry Insight: Food & Beverage" @@
    "Professional Services" :> "### Industry Insight: Professional Services" @@
    "Logistics & Transportation" :> "### Industry Insight: Logistics & Transportation" @@
    "Beauty & Personal Care" :> "### Industry Insight: Beauty & Personal Care" @@
    "Manufacturing/Production" :> "### Industry Insight: Manufacturing/Production"

_get_industry_recommendation(s) ==
    IF s.industry \in DOMAIN industry_insights
    THEN <<industry_insights[s.industry]>>
    ELSE <<>>

_generate_growth_opportunities(s) ==
    LET has(tag) == tag \in Range(s.opportunity_flags)
    IN  <<"## Growth Opportunities">>
        \o Appended(<<
             <<has("PRICING_POWER"), "**Pricing Power Advantage**">>,
             <<has("STRONG_RETENTION"), "**Customer Loyalty Strength**">>,
             <<has("ORGANIC_GROWTH"), "**Organic Growth Engine**">>,
             <<has("SYSTEMS_READY"), "**Systems & Documentation**">>,
             <<has("FINANCIAL_DISCIPLINE"), "**Financial Discipline**">> >>)

\* the immediate actions and the 30-day focus of each branch
ActionTexts ==
    [ stable |->
        << "### Immediate Actions (This Week):\n1. Schedule a 2-3 hour strategic planning session to map your 6-month roadmap\n2. Review your top opportunities from this assessment and pick ONE to execute\n3. Build or refine your financial dashboard - track the metrics that matter most",
           "### 30-Day Focus:\nYour business is stable enough to think strategically. Pick ONE growth lever from the opportunities above and run a pilot test within 30 days." >>,
      building |->
        << "### Immediate Actions (This Week):\n1. Address your #1 critical priority (if flagged) before anything else\n2. Set up basic financial tracking - cash flow and P&L at minimum\n3. Choose ONE weakness to fix and commit to it for the next 30 days\n4. Schedule a 15-minute weekly progress check-in with yourself every Friday",
           "### 30-Day Focus:\nStabilize your weakest category. Don't chase growth until you've shored up the foundation. Consistency beats intensity." >>,
      survival |->
        << "### Immediate Actions (This Week):\n1. CASH FIRST - if you have <30 days runway, everything else waits\n2. Cut non-essentials to reduce burn by at least 20%\n3. Call every late-paying customer today\n4. Seek outside perspective - you need a fresh set of eyes to turn this around",
           "### 30-Day Focus:\nSurvival mode. Extend runway and stabilize operations. Stop the bleeding before any growth moves." >> ]

\* the "how we can help" tier description of each branch
HelpTexts ==
    [ stable |->
        << "**For Stable & Scale-Ready Businesses:** Strategic advisory for growth planning, advanced analytics, partnership and investor readiness preparation.",
           "**Recommended:** Strategic Advisory Retainer or Growth Acceleration Package" >>,
      building |->
        << "**For Building Businesses:** Financial visibility, process systematization, marketing efficiency audits, team productivity frameworks.",
           "**Recommended:** 90-Day Business Transformation Program" >>,
      survival |->
        << "**For Survival-Mode Businesses:** Emergency cash flow rescue planning, rapid diagnostic consulting, margin analysis and quick-win identification.",
           "**Recommended:** Business Rescue Intensive (4-week program)" >> ]

\* the first if/elif/else of _generate_next_steps
next_steps_actions(s) ==
    IF s.total_score >= 700 THEN ActionTexts.stable
    ELSE IF s.total_score >= 500 THEN ActionTexts.building
    ELSE ActionTexts.survival

\* a second chain whose middle branch begins at 60
next_steps_help_From60(s) ==
    IF s.total_score >= 700 THEN HelpTexts.stable
    ELSE IF s.total_score >= 600 THEN HelpTexts.building
    ELSE HelpTexts.survival

\* the second if/elif/else of _generate_next_steps
next_steps_help(s) ==
    IF s.total_score >= 700 THEN HelpTexts.stable
    ELSE IF s.total_score >= 500 THEN HelpTexts.building
    ELSE HelpTexts.survival

_generate_next_steps(s) ==
    <<"## Your Next Steps">>
    \o next_steps_actions(s)
    \o << "---",
          "### How BeamX Can Help",
          "Based on your " \o JoinWords(s.readiness_level) \o " assessment:" >>
    \o next_steps_help(s)
    \o <<"Book a free 30-minute strategy call: https://calendly.com/beamxsolutions">>

\* a sort that puts the later-declared of two equal categories first
SortedCategories_TiesReversed(s) ==
    LET before(i, j) ==
            \/ s[CategoryFields[i]].percentage < s[CategoryFields[j]].percentage
            \/ /\ s[CategoryFields[i]].percentage = s[CategoryFields[j]].percentage
               /\ i > j
        rank(j) == Cardinality({i \in DOMAIN CategoryFields : before(i, j)})
    IN  [ k \in DOMAIN CategoryFields |->
            s[CategoryFields[CHOOSE j \in DOMAIN CategoryFields : rank(j) = k - 1]] ]

(* sorted(..., key=lambda x: x[0]): the category fields in ascending order  *)
(* of percentage; the sort is stable, equal percentages keep list order.   *)
SortedCategories(s) ==
    LET before(i, j) ==
            \/ s[CategoryFields[i]].percentage < s[CategoryFields[j]].percentage
            \/ /\ s[CategoryFields[i]].percentage = s[CategoryFields[j]].percentage
               /\ i < j
        rank(j) == Cardinality({i \in DOMAIN CategoryFields : before(i, j)})
    IN  [ k \in DOMAIN CategoryFields |->
            s[CategoryFields[CHOOSE j \in DOMAIN CategoryFields : rank(j) = k - 1]] ]

\* text + "\n\n" + more: an empty string leaves an empty trailing block
Paragraph(text, more) == text \o (IF more = <<>> THEN <<"">> ELSE more)

\* the pain-point and industry blocks appended without the "if pain_rec:" tests
RecsSection_Unguarded(s) ==
    LET categories == SortedCategories(s)
        first == <<"## Strategic Recommendations">>
                 \o _get_category_recommendation(categories[1].name, categories[1])
        second == IF categories[2].percentage < 600
                  THEN Paragraph(first, _get_category_recommendation(
                                            categories[2].name, categories[2]))
                  ELSE first
    IN  Paragraph(Paragraph(second, _get_pain_point_recommendation(s)),
                  _get_industry_recommendation(s))

\* the second block rendered up to and including 60
RecsSection_AtMost60(s) ==
    LET categories == SortedCategories(s)
        pain_rec == _get_pain_point_recommendation(s)
        industry_rec == _get_industry_recommendation(s)
        first == <<"## Strategic Recommendations">>
                 \o _get_category_recommendation(categories[1].name, categories[1])
        second == IF categories[2].percentage <= 600
                  THEN Paragraph(first, _get_category_recommendation(
                                            categories[2].name, categories[2]))
                  ELSE first
        third == IF pain_rec # <<>> THEN Paragraph(second, pain_rec) ELSE second
    IN  IF industry_rec # <<>> THEN Paragraph(third, industry_rec) ELSE third

\* the recs_section of build_structured_advisory
RecsSection(s) ==
    LET categories == SortedCategories(s)
        pain_rec == _get_pain_point_recommendation(s)
        industry_rec == _get_industry_recommendation(s)
        first == <<"## Strategic Recommendations">>
                 \o _get_category_recommendation(categories[1].name, categories[1])
        second == IF categories[2].percentage < 600
                  THEN Paragraph(first, _get_category_recommendation(
                                            categories[2].name, categories[2]))
                  ELSE first
        third == IF pain_rec # <<>> THEN Paragraph(second, pain_rec) ELSE second
    IN  IF industry_rec # <<>> THEN Paragraph(third, industry_rec) ELSE third

RECURSIVE JoinSections(_)
\* "\n\n---\n\n".join(sections)
JoinSections(sections) ==
    IF Len(sections) = 0 THEN <<>>
    ELSE IF Len(sections) = 1 THEN sections[1]
    ELSE sections[1] \o <<"---">> \o JoinSections(Tail(sections))

\* a sections list that always holds the growth opportunities
Sections_AlwaysOpportunities(s) ==
    <<_generate_executive_summary(s)>>
    \o (IF Len(s.critical_flags) > 0 THEN <<_generate_critical_priorities(s)>> ELSE <<>>)
    \o <<RecsSection(s)>>
    \o <<_generate_growth_opportunities(s)>>
    \o <<_generate_next_steps(s)>>

\* the sections list of build_structured_advisory
Sections(s) ==
    <<_generate_executive_summary(s)>>
    \o (IF Len(s.critical_flags) > 0 THEN <<_generate_critical_priorities(s)>> ELSE <<>>)
    \o <<RecsSection(s)>>
    \o (IF Len(s.opportunity_flags) > 0 THEN <<_generate_growth_opportunities(s)>> ELSE <<>>)
    \o <<_generate_next_steps(s)>>

build_structured_advisory(s) == JoinSections(Sections(s))

(***************************************************************************)
(* Requests.  The answer sets scored are bounded: a few base answer sets,  *)
(* and around each base every combination of the answers of one group of   *)
(* fields (the fields of one category score, or one context field).        *)
(***************************************************************************)
MaxLevel == 5

Identity == [ fullName |-> "Ada Obi", email |-> "ada@example.com",
              businessName |-> "Obi Stores" ]

\* the end-to-end scenario: mid-range answers
SeedInput ==
    Identity @@
    [ industry |-> "Retail/Trade", yearsInBusiness |-> "3-5 years",
      cashFlow |-> "Breaking even", profitMargin |-> "10-20%",
      cashRunway |-> "3-6 months", paymentSpeed |-> "1-7 days",
      repeatCustomerRate |-> "50-70% repeat",
      acquisitionChannel |-> "Organic social media",
      pricingPower |-> "Most customers would stay",
      founderDependency |-> "Can step away 1 week",
      processDocumentation |-> "Some key processes documented",
      inventoryTracking |-> "Regular manual/spreadsheet",
      expenseAwareness |-> "Know roughly",
      profitPerProduct |-> "Good sense of what's profitable",
      pricingStrategy |-> "Match competitors",
      businessTrajectory |-> "Stable (+-5%)",
      revenueDiversification |-> "2-3 streams",
      digitalPayments |-> "50-80% digital",
      formalRegistration |-> "Registered, behind on taxes",
      infrastructure |-> "Mostly reliable with backups",
      bankingRelationship |-> "Accounts but no credit",
      primaryPainPoint |-> "Getting more customers/sales" ]

\* an answer set whose category scores add up to 70 over the rationals
NearTierInput ==
    [ SeedInput EXCEPT
        !.profitMargin = "20-30%", !.paymentSpeed = "Same day (cash/instant)",
        !.acquisitionChannel = "Walk-ins/location visibility",
        !.pricingPower = "Some would leave but still profitable",
        !.founderDependency = "Runs 2+ weeks without me",
        !.processDocumentation = "No consistent processes",
        !.inventoryTracking = "Not applicable (service business)",
        !.digitalPayments = "Less than 20% digital",
        !.formalRegistration = "Fully registered and tax compliant" ]

\* the i-th listed value of every field (the last one where there are fewer)
LevelInput(i) ==
    Identity @@ [ f \in DOMAIN Schema |-> Schema[f][Min(i, Len(Schema[f]))] ]

BaseInputs == {SeedInput, NearTierInput} \cup {LevelInput(i) : i \in 1..MaxLevel}

V(f) == Range(Schema[f])

\* a base with every combination of answers to the fields of one group
VariedAnswers(b) ==
    { [b EXCEPT !.cashFlow = a1, !.profitMargin = a2, !.cashRunway = a3,
                !.paymentSpeed = a4] :
        a1 \in V("cashFlow"), a2 \in V("profitMargin"), a3 \in V("cashRunway"),
        a4 \in V("paymentSpeed") }
    \cup
    { [b EXCEPT !.repeatCustomerRate = a1, !.acquisitionChannel = a2,
                !.pricingPower = a3] :
        a1 \in V("repeatCustomerRate"), a2 \in V("acquisitionChannel"),
        a3 \in V("pricingPower") }
    \cup
    { [b EXCEPT !.founderDependency = a1, !.processDocumentation = a2,
                !.inventoryTracking = a3] :
        a1 \in V("founderDependency"), a2 \in V("processDocumentation"),
        a3 \in V("inventoryTracking") }
    \cup
    { [b EXCEPT !.expenseAwareness = a1, !.profitPerProduct = a2,
                !.pricingStrategy = a3] :
        a1 \in V("expenseAwareness"), a2 \in V("profitPerProduct"),
        a3 \in V("pricingStrategy") }
    \cup
    { [b EXCEPT !.businessTrajectory = a1, !.revenueDiversification = a2] :
        a1 \in V("businessTrajectory"), a2 \in V("revenueDiversification") }
    \cup
    { [b EXCEPT !.digitalPayments = a1, !.formalRegistration = a2,
                !.infrastructure = a3, !.bankingRelationship = a4] :
        a1 \in V("digitalPayments"), a2 \in V("formalRegistration"),
        a3 \in V("infrastructure"), a4 \in V("bankingRelationship") }

\* a base with every combination of the answers the critical predicates name
WorstCaseAnswers(b) ==
    { [b EXCEPT !.cashFlow = a1, !.cashRunway = a2, !.profitMargin = a3,
                !.founderDependency = a4, !.formalRegistration = a5,
                !.repeatCustomerRate = a6] :
        a1 \in {b.cashFlow, "Burning cash consistently", "Don't know"},
        a2 \in {b.cashRunway, "Less than 1 month", "Would close immediately"},
        a3 \in {b.profitMargin, "Less than 5% or negative", "Don't know"},
        a4 \in {b.founderDependency, "Can't miss even 1 day", "Must be there daily"},
        a5 \in {b.formalRegistration, "Not registered"},
        a6 \in {b.repeatCustomerRate, "Less than 10% repeat"} }

VariedContext(b) ==
    { [b EXCEPT !.industry = a] : a \in V("industry") }
    \cup { [b EXCEPT !.primaryPainPoint = a] : a \in V("primaryPainPoint") }
    \cup { [b EXCEPT !.yearsInBusiness = a] : a \in V("yearsInBusiness") }

\* the answer sets the scoring engine is checked on
AnswerSets ==
    UNION { VariedAnswers(b) \cup VariedContext(b) \cup WorstCaseAnswers(b) : b \in BaseInputs }

\* the requests the handlers are checked on
RequestInputs == UNION { VariedContext(b) : b \in BaseInputs }

NoScore == [ none |-> TRUE ]
NoAdvisory == <<"(unset)">>
NoResult == [ status |-> 0 ]
NoPayload == [ none |-> TRUE ]

Unstarted ==
    /\ pc = "start"
    /\ score = NoScore
    /\ structured_advisory = NoAdvisory
    /\ advisory = NoAdvisory
    /\ llm = [ kind |-> "idle" ]
    /\ cancel_requested = FALSE
    /\ db_saved = FALSE
    /\ email_sent = FALSE
    /\ result = NoResult
    /\ payload = NoPayload
    /\ calls = <<>>

(* Step 1 of a handler: score = calculate_beacon_score(form_data).  A      *)
(* KeyError is caught by the handler's "except Exception" and answered     *)
(* with HTTP 500.                                                          *)
Calculate ==
    /\ pc = "start"
    /\ IF RaisesKeyError(data)
       THEN /\ pc' = "failed"
            /\ result' = [ status |-> 500, detail |-> "KeyError" ]
            /\ UNCHANGED score
       ELSE /\ pc' = "scored"
            /\ \E s \in {calculate_beacon_score(data)} : score' = s
            /\ UNCHANGED result
    /\ UNCHANGED <<data, structured_advisory, advisory, llm, cancel_requested,
                   db_saved, email_sent, resend_api_key, payload, calls>>

\* calculate_beacon_score applied to every answer set of AnswerSets
InitScore == data \in AnswerSets /\ resend_api_key = TRUE /\ Unstarted

SpecScore == InitScore /\ [][Calculate]_vars

(***************************************************************************)
(* STEP 2: LLM NARRATIVE POLISH                                            *)
(***************************************************************************)
IsSpace(block) == block = " "

RECURSIVE LStrip(_)
LStrip(text) == IF Len(text) > 0 /\ IsSpace(Head(text)) THEN LStrip(Tail(text)) ELSE text

RECURSIVE RStrip(_)
RStrip(text) ==
    IF Len(text) > 0 /\ IsSpace(text[Len(text)])
    THEN RStrip(SubSeq(text, 1, Len(text) - 1))
    ELSE text

\* str.strip(): leading and trailing whitespace removed
Strip(text) == RStrip(LStrip(text))

\* openai_client = OpenAI(api_key=os.getenv("OPENAI_API_KEY")): the keywords given
openai_client == [ api_key |-> "OPENAI_API_KEY" ]

\* the keywords of the one chat.completions.create call
CreateArgs == [ model |-> "gpt-4-turbo",
                messages |-> <<"system", "user">>,
                max_tokens |-> "2500",
                temperature |-> "0.7" ]

\* the exceptions openai_client.chat.completions.create raises
ServiceErrors == {"APIError", "APIConnectionError", "APITimeoutError"}

NoContent == <<"(None)">>

(* What the narrative service can do with the one request: raise, or       *)
(* return a response with no choices, with a message without content, or   *)
(* with a text.                                                            *)
LLMOutcomes(structured) ==
    { [ kind |-> "raised", exc |-> e, choices |-> <<>> ] : e \in ServiceErrors }
    \cup
    { [ kind |-> "returned", exc |-> "none", choices |-> c ] :
        c \in { <<>>,
                << [ has_content |-> FALSE, content |-> NoContent ] >>,
                << [ has_content |-> TRUE, content |-> <<>> ] >>,
                << [ has_content |-> TRUE,
                     content |-> <<" ", "Ada, here is where Obi Stores stands.", " ">> ] >>,
                << [ has_content |-> TRUE,
                     content |-> <<" ", "Ada, a word before the numbers.">>
                                 \o structured \o <<" ">> ] >> } }

\* the exception the body of the try raises on this outcome, "none" if none
TryRaises(r) ==
    IF r.kind = "raised" THEN r.exc
    ELSE IF Len(r.choices) = 0 THEN "IndexError"
    ELSE IF ~r.choices[1].has_content THEN "AttributeError"
    ELSE "none"

\* an except clause that names the client library's errors only
CaughtByExceptAPIError(e) == e \in ServiceErrors

\* "except Exception" catches every exception class above
CaughtByExceptException(e) == e \in ServiceErrors \cup {"IndexError", "AttributeError", "KeyError"}

\* a fallback that returns the advisory without its closing section
polish_fallback_truncated(structured, r) ==
    LET e == TryRaises(r)
    IN  IF e = "none"
        THEN [ raised |-> "none", value |-> Strip(r.choices[1].content) ]
        ELSE [ raised |-> "none", value |-> SubSeq(structured, 1, Len(structured) - 1) ]

(* polish_advisory_with_llm once create() has returned or raised r: the    *)
(* value returned, or the exception that leaves the function.              *)
polish_advisory_with_llm(structured, r) ==
    LET e == TryRaises(r)
    IN  IF e = "none"
        THEN [ raised |-> "none", value |-> Strip(r.choices[1].content) ]
        ELSE IF CaughtByExceptException(e)
        THEN [ raised |-> "none", value |-> structured ]
        ELSE [ raised |-> e, value |-> NoAdvisory ]

(***************************************************************************)
(* API ENDPOINTS: generate_report                                          *)
(***************************************************************************)
Breakdown(c) == [ score |-> c.score, max |-> 20, grade |-> c.grade,
                  percentage |-> c.percentage, insights |-> c.insights ]

\* the result dict generate_report returns
ReportResult(d, s, adv, sent) ==
    [ status |-> 200,
      total_score |-> s.total_score,
      readiness_level |-> s.readiness_level,
      breakdown |-> [ f \in Range(CategoryFields) |-> Breakdown(s[f]) ],
      flags |-> [ critical |-> s.critical_flags, opportunities |-> s.opportunity_flags ],
      advisory |-> adv,
      context |-> [ industry |-> d.industry, yearsInBusiness |-> d.yearsInBusiness,
                    primaryPainPoint |-> d.primaryPainPoint,
                    businessName |-> d.businessName ],
      email_sent |-> sent ]

\* Step 2: structured_advisory = build_structured_advisory(score)
BuildAdvisory ==
    /\ pc = "scored"
    /\ structured_advisory' = build_structured_advisory(score)
    /\ pc' = "built"
    /\ UNCHANGED <<data, score, advisory, llm, cancel_requested, db_saved, email_sent,
                   result, resend_api_key, payload, calls>>

(* Step 3: polish_advisory_with_llm is entered and issues its one call,    *)
(* chat.completions.create(model, messages, max_tokens, temperature).  The *)
(* call is synchronous and is given no timeout.                            *)
PolishCall ==
    /\ pc = "built"
    /\ llm' = [ kind |-> "pending", args |-> CreateArgs ]
    /\ pc' = "polishing"
    /\ UNCHANGED <<data, score, structured_advisory, advisory, cancel_requested,
                   db_saved, email_sent, result, resend_api_key, payload, calls>>

(* A cancellation of the request's task is asked for while the call is     *)
(* pending.  asyncio delivers a cancellation at an await that suspends;    *)
(* polish_advisory_with_llm holds none, so the request is only recorded.   *)
Cancel ==
    /\ pc = "polishing"
    /\ llm.kind = "pending"
    /\ ~cancel_requested
    /\ cancel_requested' = TRUE
    /\ UNCHANGED <<pc, data, score, structured_advisory, advisory, llm, db_saved,
                   email_sent, result, resend_api_key, payload, calls>>

\* the narrative service answers, or the client library gives up
LLMResponds ==
    /\ pc = "polishing"
    /\ llm.kind = "pending"
    /\ \E r \in LLMOutcomes(structured_advisory) : llm' = r
    /\ UNCHANGED <<pc, data, score, structured_advisory, advisory, cancel_requested,
                   db_saved, email_sent, result, resend_api_key, payload, calls>>

(* create() has returned or raised: the rest of polish_advisory_with_llm,  *)
(* and generate_report's "except Exception" if an exception leaves it.     *)
PolishReturn ==
    /\ pc = "polishing"
    /\ llm.kind \in {"raised", "returned"}
    /\ LET out == polish_advisory_with_llm(structured_advisory, llm)
       IN  IF out.raised = "none"
           THEN /\ advisory' = out.value
                /\ pc' = "polished"
                /\ UNCHANGED result
           ELSE /\ pc' = "failed"
                /\ result' = [ status |-> 500, detail |-> out.raised ]
                /\ UNCHANGED advisory
    /\ UNCHANGED <<data, score, structured_advisory, llm, cancel_requested, db_saved,
                   email_sent, resend_api_key, payload, calls>>

\* supabase insert inside its own try: a failure is logged, not fatal
SaveToDb ==
    /\ pc = "polished"
    /\ \E inserted \in BOOLEAN :
          /\ db_saved' = inserted
          /\ calls' = Append(calls, [ op |-> "insert", advisory |-> advisory,
                                      ok |-> inserted ])
    /\ pc' = "saved"
    /\ UNCHANGED <<data, score, structured_advisory, advisory, llm, cancel_requested,
                   email_sent, result, resend_api_key, payload>>

\* a send_results_email that reports success although the send raised
send_results_email_IgnoresFailure(configured, delivered) == configured

\* send_results_email: False without a key or when the PDF or the send raises
send_results_email(configured, delivered) == configured /\ delivered

\* email_sent = send_results_email(...); result["email_sent"] = email_sent; return
SendEmail ==
    /\ pc = "saved"
    /\ \E delivered \in BOOLEAN :
          /\ email_sent' = send_results_email(resend_api_key, delivered)
          /\ result' = ReportResult(data, score, advisory, email_sent')
          /\ calls' = IF resend_api_key
                      THEN Append(calls, [ op |-> "send", to |-> data.email,
                                           advisory |-> advisory, ok |-> delivered ])
                      ELSE calls
    /\ pc' = "done"
    /\ UNCHANGED <<data, score, structured_advisory, advisory, llm, cancel_requested,
                   db_saved, resend_api_key, payload>>

Init == data \in RequestInputs /\ resend_api_key \in BOOLEAN /\ Unstarted

\* the requests whose termination is examined: one per base answer set
InitFair == data \in BaseInputs /\ resend_api_key \in BOOLEAN /\ Unstarted

\* the steps of the request handler
Handler == Calculate \/ BuildAdvisory \/ PolishCall \/ PolishReturn \/ SaveToDb \/ SendEmail

Next == Handler \/ Cancel \/ LLMResponds

Spec == Init /\ [][Next]_vars

(* The handler's own steps are always taken; nothing obliges the narrative *)
(* service to answer, or the caller to cancel.                             *)
FairSpec == InitFair /\ [][Next]_vars /\ WF_vars(Handler)

(***************************************************************************)
(* Properties of the scoring engine, checked under SpecScore.              *)
(***************************************************************************)
Scored == pc = "scored"

Categories(s) == { s[f] : f \in Range(CategoryFields) }

\* the answers of d are those of the end-to-end scenario
IsSeedAnswers(d) == \A f \in DOMAIN ScoringTable : d[f] = SeedInput[f]

(* C1: for the answers of the end-to-end scenario calculate_beacon_score    *)
(* reports Financial Health 14.0, Customer Strength 14.7, Operational      *)
(* Maturity 16.0, Financial Intelligence 14.7 and Growth & Resilience 14.0 *)
(* out of 20, the readiness tier Stable Foundation, no critical flag and   *)
(* the single opportunity flag PRICING_POWER.                              *)
C1_SeedScenario ==
    (Scored /\ IsSeedAnswers(data)) =>
        /\ score.financial_health.score = 140
        /\ score.customer_strength.score = 147
        /\ score.operational_maturity.score = 160
        /\ score.financial_intelligence.score = 147
        /\ score.growth_resilience.score = 140
        /\ \A c \in Categories(score) : c.max_score = 20
        /\ score.readiness_level = LEVEL_STABLE
        /\ score.critical_flags = <<>>
        /\ score.opportunity_flags = <<"PRICING_POWER">>

C1_Witness == Scored /\ IsSeedAnswers(data) /\ score.customer_strength.score = 147

\* round(a + b + c + d + e, 1) of the five reported one-decimal scores
SumOfReported(s) ==
    Round1(SumScores(FromTenths(s.financial_health.score),
                     FromTenths(s.customer_strength.score),
                     FromTenths(s.operational_maturity.score),
                     FromTenths(s.financial_intelligence.score),
                     FromTenths(s.growth_resilience.score)))

(* C2: in every report total_score equals the sum of the five category      *)
(* scores reported in that report, rounded to 1 decimal; the end-to-end    *)
(* scenario (14.0, 14.7, 16.0, 14.7, 14.0) has total_score 73.4.           *)
C2_TotalIsSumOfReported ==
    Scored =>
        /\ score.total_score = SumOfReported(score)
        /\ IsSeedAnswers(data) => score.total_score = 734

(* C3: for every valid answer set each of the five category scores lies in  *)
(* [0, 20] and total_score lies in [0, 100].                               *)
C3_ScoresInRange ==
    Scored =>
        /\ \A c \in Categories(score) : c.score >= 0 /\ c.score <= 200
        /\ score.total_score >= 0 /\ score.total_score <= 1000
        /\ \A x \in {fh_score(data), cs_score(data), om_score(data),
                     fi_score(data), gr_score(data)} :
               FGeInt(x, 0) /\ FLeInt(x, 20)
        /\ FGeInt(total(data), 0) /\ FLeInt(total(data), 100)

\* both ends of the range are reached: a category at 20.0 and one at 0.0
C3_Witness ==
    /\ Scored
    /\ \E c \in Categories(score) : c.score = 200
    /\ \E c \in Categories(score) : c.score = 0

(* C4: every CategoryScore satisfies                                        *)
(* percentage == round(raw_score / max_score * 100, 1), raw_score being the *)
(* one-decimal score field it stores and max_score = 20.                   *)
C4_PercentageFromStoredScore ==
    Scored =>
        \A c \in Categories(score) :
            /\ c.max_score = 20
            /\ c.percentage = Round1(FMulInt(FDivInt(FromTenths(c.score), c.max_score), 100))

(* C5: every enumerated value of every scored answer field has an entry in  *)
(* that field's scoring table, so calculate_beacon_score never fails with  *)
(* a missing-key error on a valid answer set.                              *)
C5_Totality ==
    /\ DOMAIN ScoringTable =
           DOMAIN Schema \ {"industry", "yearsInBusiness", "primaryPainPoint"}
    /\ \A f \in DOMAIN ScoringTable : Range(Schema[f]) \subseteq DOMAIN ScoringTable[f]
    /\ ~RaisesKeyError(data)
    /\ pc # "failed"
    /\ result = NoResult

\* an answer only one table entry covers has been scored
C5_Witness ==
    /\ Scored
    /\ data.inventoryTracking = "Not applicable (service business)"
    /\ score.operational_maturity.score > 0

\* the tier the thresholds give for a reported total (in tenths)
TierOfReported(t) ==
    IF t >= 850 THEN LEVEL_SCALE_READY
    ELSE IF t >= 700 THEN LEVEL_STABLE
    ELSE IF t >= 500 THEN LEVEL_BUILDING
    ELSE IF t >= 300 THEN LEVEL_SURVIVAL
    ELSE LEVEL_RED_ALERT

(* C6: in every report the readiness tier is determined by the reported     *)
(* total_score: Scale-Ready iff total_score >= 85, Stable Foundation iff   *)
(* 70 <= total_score < 85, Building Blocks iff 50 <= total_score < 70,     *)
(* Survival Mode iff 30 <= total_score < 50, Red Alert iff total_score <   *)
(* 30.                                                                     *)
C6_TierFromReportedTotal ==
    Scored => score.readiness_level = TierOfReported(score.total_score)

(***************************************************************************)
(* Properties of the polish step and of generate_report.                   *)
(***************************************************************************)
\* create() raised, or returned a response the try body cannot read
PolishFailed == llm.kind \in {"raised", "returned"} /\ TryRaises(llm) # "none"

\* polish_advisory_with_llm has returned to generate_report
Polished == pc \in {"polished", "saved", "done"}

(* C7: whenever the narrative-service call fails (a service error, a       *)
(* timeout, a response with no choices or with a message without content), *)
(* polish_advisory_with_llm returns exactly the structured_advisory it was *)
(* given and raises nothing to its caller.                                 *)
C7_PolishFallback ==
    /\ pc = "polishing" =>
          \A r \in LLMOutcomes(structured_advisory) :
              TryRaises(r) # "none" =>
                  polish_advisory_with_llm(structured_advisory, r)
                      = [ raised |-> "none", value |-> structured_advisory ]
    /\ PolishFailed /\ pc # "polishing" =>
          /\ Polished
          /\ advisory = structured_advisory
          /\ advisory = build_structured_advisory(score)

\* each way of failing has been taken and answered by the fallback
C7_Witness ==
    /\ pc = "polished"
    /\ PolishFailed
    /\ TryRaises(llm) = "AttributeError"
    /\ advisory = structured_advisory
    /\ Len(advisory) > 5

(* C8: cancelling the polish step while its external call is pending is    *)
(* equivalent to the call failing: the request ends up with the structured *)
(* advisory as its advisory, and no error leaves the polish step.          *)
C8_CancelYieldsStructured ==
    cancel_requested /\ pc # "polishing" =>
        /\ Polished
        /\ advisory = structured_advisory

(* C9: the polish step always eventually returns: its one external call is *)
(* made with an explicit timeout, so polish_advisory_with_llm terminates   *)
(* even if the narrative service never responds.                           *)
C9_PolishEventuallyReturns ==
    /\ [](llm.kind = "pending" =>
             "timeout" \in DOMAIN llm.args \cup DOMAIN openai_client)
    /\ (pc = "polishing") ~> (pc # "polishing")

(* C10: generate_report never fails solely because the narrative rewrite   *)
(* failed: when the polish call fails the request does not end in an       *)
(* error, and the result returned carries the rule-based structured        *)
(* advisory and the scores and flags that scoring computed.                *)
C10_ReportSurvivesPolishFailure ==
    PolishFailed =>
        /\ pc # "failed"
        /\ pc = "done" =>
              LET s == calculate_beacon_score(data)
              IN  /\ result.status = 200
                  /\ result.advisory = build_structured_advisory(s)
                  /\ result.total_score = s.total_score
                  /\ result.readiness_level = s.readiness_level
                  /\ \A f \in Range(CategoryFields) :
                        /\ result.breakdown[f].score = s[f].score
                        /\ result.breakdown[f].grade = s[f].grade
                        /\ result.breakdown[f].percentage = s[f].percentage
                  /\ result.flags.critical = s.critical_flags
                  /\ result.flags.opportunities = s.opportunity_flags

\* a report returned after the service raised, with a flag of each kind
C10_Witness ==
    /\ pc = "done"
    /\ llm.kind = "raised"
    /\ result.status = 200
    /\ result.advisory = structured_advisory
    /\ Len(result.flags.critical) > 0
    /\ Len(result.flags.opportunities) > 0

(* C11: the polish pass alters no fact: whatever text the narrative        *)
(* service returns, the advisory polish_advisory_with_llm returns contains *)
(* every number, grade, percentage, recommendation and section marker of   *)
(* the structured advisory verbatim, that is every one of its blocks.      *)
C11_PolishKeepsFacts ==
    Polished => Range(structured_advisory) \subseteq Range(advisory)

(***************************************************************************)
(* Properties of the flags, checked under SpecScore.                       *)
(***************************************************************************)
\* the tags of the six critical predicates, in the order of the code
CriticalTags == <<"CASH_CRISIS", "RUNWAY_CRITICAL", "NO_PROFIT_VISIBILITY",
                  "FOUNDER_BURNOUT_RISK", "INFORMAL_OPERATIONS", "NO_CUSTOMER_LOYALTY">>

HasCritical(tag) == tag \in Range(score.critical_flags)

HasOpportunity(tag) == tag \in Range(score.opportunity_flags)

\* the sets of critical tags the answer sets produce
ProducedCriticalSets == { Range(critical_flags(d)) : d \in AnswerSets }

(* C12: the critical flags come from independent predicates: CASH_CRISIS   *)
(* iff cashFlow is "Burning cash consistently" or "Don't know",            *)
(* RUNWAY_CRITICAL iff cashRunway is "Less than 1 month" or "Would close   *)
(* immediately", NO_PROFIT_VISIBILITY iff profitMargin is "Less than 5% or *)
(* negative" or "Don't know", INFORMAL_OPERATIONS iff formalRegistration   *)
(* is "Not registered", NO_CUSTOMER_LOYALTY iff repeatCustomerRate is      *)
(* "Less than 10% repeat"; and each of the 2^6 sets of critical tags is    *)
(* the flag set of some valid answer set.                                  *)
C12_CriticalFlagsIndependent ==
    /\ Scored =>
          /\ HasCritical("CASH_CRISIS")
                <=> data.cashFlow \in {"Burning cash consistently", "Don't know"}
          /\ HasCritical("RUNWAY_CRITICAL")
                <=> data.cashRunway \in {"Less than 1 month", "Would close immediately"}
          /\ HasCritical("NO_PROFIT_VISIBILITY")
                <=> data.profitMargin \in {"Less than 5% or negative", "Don't know"}
          /\ HasCritical("INFORMAL_OPERATIONS")
                <=> data.formalRegistration = "Not registered"
          /\ HasCritical("NO_CUSTOMER_LOYALTY")
                <=> data.repeatCustomerRate = "Less than 10% repeat"
          /\ Range(score.critical_flags) \subseteq Range(CriticalTags)
    /\ ProducedCriticalSets = SUBSET Range(CriticalTags)

\* all six predicates have fired on one answer set
C12_Witness == Scored /\ Range(score.critical_flags) = Range(CriticalTags)

(* C13: a founder unable to miss a day gets the founder-dependency flag:   *)
(* whenever founderDependency is "Can't miss even 1 day" or "Must be there *)
(* daily", critical_flags contains FOUNDER_BURNOUT_RISK.                   *)
C13_FounderUnableToMissADay ==
    Scored /\ data.founderDependency \in {"Can't miss even 1 day", "Must be there daily"}
        => HasCritical("FOUNDER_BURNOUT_RISK")

(* C14: the score-based opportunity flag fires exactly at the absolute     *)
(* threshold: opportunity_flags contains FINANCIAL_DISCIPLINE iff the      *)
(* Financial Health score is at least 16 out of 20, equivalently iff the   *)
(* reported Financial Health percentage is at least 80.                    *)
C14_FinancialDisciplineThreshold ==
    Scored =>
        /\ HasOpportunity("FINANCIAL_DISCIPLINE") <=> FGeInt(fh_score(data), 16)
        /\ HasOpportunity("FINANCIAL_DISCIPLINE") <=> score.financial_health.score >= 160
        /\ HasOpportunity("FINANCIAL_DISCIPLINE") <=> score.financial_health.percentage >= 800

\* the flag at the threshold itself
C14_Witness ==
    /\ Scored
    /\ fh_raw(data) = 16
    /\ score.financial_health.score = 160
    /\ HasOpportunity("FINANCIAL_DISCIPLINE")

(* C15: the four answer-based opportunity flags fire only on best-case     *)
(* answers: PRICING_POWER, STRONG_RETENTION, ORGANIC_GROWTH and            *)
(* SYSTEMS_READY are each present iff the answer to pricingPower,          *)
(* repeatCustomerRate, acquisitionChannel and processDocumentation         *)
(* respectively scores the maximum 5 points in that field's table.         *)
C15_AnswerFlagsOnBestCase ==
    Scored =>
        /\ HasOpportunity("PRICING_POWER") <=> PRICING_POWER_MAP[data.pricingPower] = 5
        /\ HasOpportunity("STRONG_RETENTION") <=> REPEAT_RATE_MAP[data.repeatCustomerRate] = 5
        /\ HasOpportunity("ORGANIC_GROWTH") <=> ACQUISITION_MAP[data.acquisitionChannel] = 5
        /\ HasOpportunity("SYSTEMS_READY") <=> PROCESS_DOC_MAP[data.processDocumentation] = 5

(***************************************************************************)
(* BeaconScore objects built field by field.  build_structured_advisory    *)
(* takes any BeaconScore; the reports below are the one of the end-to-end  *)
(* scenario with its flag lists, its category percentages or its total     *)
(* replaced.                                                               *)
(***************************************************************************)
MaxFlags == 4

\* the sequences of at most k distinct elements of S
RECURSIVE Arrangements(_, _)
Arrangements(S, k) ==
    IF k = 0 THEN { <<>> }
    ELSE { <<>> } \cup
         UNION { { <<x>> \o a : a \in Arrangements(S \ {x}, k - 1) } : x \in S }

\* the BeaconScore of the end-to-end scenario, written out field by field
BaseReport ==
    [ total_score |-> 733,
      readiness_level |-> LEVEL_STABLE,
      financial_health |->
          [ name |-> "Financial Health", score |-> 140, max_score |-> 20,
            percentage |-> 700, grade |-> "B", insights |-> <<>> ],
      customer_strength |->
          [ name |-> "Customer Strength", score |-> 147, max_score |-> 20,
            percentage |-> 733, grade |-> "B", insights |-> <<>> ],
      operational_maturity |->
          [ name |-> "Operational Maturity", score |-> 160, max_score |-> 20,
            percentage |-> 800, grade |-> "B+", insights |-> <<>> ],
      financial_intelligence |->
          [ name |-> "Financial Intelligence", score |-> 147, max_score |-> 20,
            percentage |-> 733, grade |-> "B", insights |-> <<>> ],
      growth_resilience |->
          [ name |-> "Growth & Resilience", score |-> 140, max_score |-> 20,
            percentage |-> 700, grade |-> "B",
            insights |-> <<"Strong digital payment adoption - good transaction visibility">> ],
      primary_pain_point |-> "Getting more customers/sales",
      industry |-> "Retail/Trade",
      years_in_business |-> "3-5 years",
      critical_flags |-> <<>>,
      opportunity_flags |-> <<"PRICING_POWER">> ]

\* the tags calculate_beacon_score appends, and one it does not know
FlagTags == { "CASH_CRISIS", "RUNWAY_CRITICAL", "NO_PROFIT_VISIBILITY",
              "FOUNDER_BURNOUT_RISK", "INFORMAL_OPERATIONS", "NO_CUSTOMER_LOYALTY",
              "SUPPLIER_RISK" }

OpportunityTags == <<"PRICING_POWER", "STRONG_RETENTION", "ORGANIC_GROWTH",
                     "SYSTEMS_READY", "FINANCIAL_DISCIPLINE">>

\* critical_flags in every order
FlagReports ==
    { [BaseReport EXCEPT !.critical_flags = fl] : fl \in Arrangements(FlagTags, MaxFlags) }

\* opportunity_flags of every content, with and without a critical flag
OpportunityReports ==
    { [BaseReport EXCEPT
         !.opportunity_flags =
             Appended([ i \in DOMAIN OpportunityTags |->
                          <<OpportunityTags[i] \in S, OpportunityTags[i]>> ]),
         !.critical_flags = fl] :
        S \in SUBSET Range(OpportunityTags), fl \in { <<>>, <<"RUNWAY_CRITICAL">> } }

\* percentages (in tenths) around the 60% rule of the recommendations
PercentageGrid == {400, 550, 595, 600, 750}

\* a CategoryScore of the given percentage of its 20 points
WithPercentage(c, pct) ==
    [c EXCEPT !.percentage = pct, !.score = pct \div 5, !.grade = get_grade(pct)]

\* a report of the given category percentages
PercentageReport(p) ==
    LET sum == (p[1] \div 5) + (p[2] \div 5) + (p[3] \div 5) + (p[4] \div 5) + (p[5] \div 5)
    IN  [BaseReport EXCEPT
            !.financial_health = WithPercentage(@, p[1]),
            !.customer_strength = WithPercentage(@, p[2]),
            !.operational_maturity = WithPercentage(@, p[3]),
            !.financial_intelligence = WithPercentage(@, p[4]),
            !.growth_resilience = WithPercentage(@, p[5]),
            !.total_score = sum,
            !.readiness_level = level(FromTenths(sum))]

PercentageReports ==
    { PercentageReport(p) : p \in [1..5 -> PercentageGrid] }

\* totals (in tenths) at and around the thresholds of the branches
TotalGrid == {0, 299, 300, 499, 500, 501, 699, 700, 701, 849, 850, 1000}

TotalReports ==
    { [BaseReport EXCEPT !.total_score = tt, !.readiness_level = level(FromTenths(tt))] :
        tt \in TotalGrid }

\* a pain point and an industry outside the schema: BeaconScore holds plain str
UnlistedPainPoint == "Finding reliable suppliers"
UnlistedIndustry == "Mining"

\* reports of every pain point and industry
ContextReports ==
    { [BaseReport EXCEPT !.primary_pain_point = p, !.industry = i] :
        p \in V("primaryPainPoint") \cup {UnlistedPainPoint},
        i \in V("industry") \cup {UnlistedIndustry} }

ScoreReports ==
    FlagReports \cup OpportunityReports \cup PercentageReports \cup TotalReports
    \cup ContextReports

\* a report handed to build_structured_advisory
InitReport ==
    /\ pc = "scored"
    /\ data = SeedInput
    /\ score \in ScoreReports
    /\ structured_advisory = NoAdvisory
    /\ advisory = NoAdvisory
    /\ llm = [ kind |-> "idle" ]
    /\ cancel_requested = FALSE
    /\ db_saved = FALSE
    /\ email_sent = FALSE
    /\ result = NoResult
    /\ resend_api_key = TRUE
    /\ payload = NoPayload
    /\ calls = <<>>

SpecReport == InitReport /\ [][BuildAdvisory]_vars

(***************************************************************************)
(* API ENDPOINTS: email_results.  The payload is the dict the frontend     *)
(* posts: { email, result, formData }.  An absent key or a JSON null reads *)
(* as None, written "(None)" for a string and NoContent for a text.        *)
(***************************************************************************)
None == "(None)"

NoForm == [ none |-> TRUE ]

\* the narrative the frontend got from generate_report earlier
PolishedText == <<"Ada, here is where Obi Stores stands.",
                  "**Overall Score:** 73.3/100">>

\* the shapes of payload["result"]: key absent, JSON null, or a dict
PayloadResults ==
    { [ kind |-> "absent", advisory |-> NoContent ],
      [ kind |-> "null", advisory |-> NoContent ] }
    \cup
    { [ kind |-> "dict", advisory |-> a ] :
        a \in {NoContent, <<>>, PolishedText, build_structured_advisory(BaseReport)} }

Payloads ==
    [ email : {None, "", "cfo@example.com"},
      result : PayloadResults,
      formData : BaseInputs \cup {NoForm} ]

\* payload.get("result", {}).get("advisory"): its value, or what it raises
payload_advisory(p) ==
    IF p.result.kind = "null"
    THEN [ raised |-> "AttributeError", value |-> NoContent ]
    ELSE IF p.result.kind = "absent"
    THEN [ raised |-> "none", value |-> NoContent ]
    ELSE [ raised |-> "none", value |-> p.result.advisory ]

\* "not advisory": None and the empty string
Falsy(text) == text = NoContent \/ text = <<>>

\* an endpoint that rebuilds the advisory whatever the payload carries
email_advisory_AlwaysRebuilt(p, s) == build_structured_advisory(s)

\* the advisory email_results hands to generate_pdf_report
email_advisory(p, s) ==
    LET a == payload_advisory(p).value
    IN  IF Falsy(a) THEN build_structured_advisory(s) ELSE a

\* recipient_email = payload.get("email"); 400 if it is missing or empty
EmailRecipient ==
    /\ pc = "received"
    /\ IF payload.email \in {None, ""}
       THEN /\ pc' = "failed"
            /\ result' = [ status |-> 400, detail |-> "Email address is required" ]
       ELSE /\ pc' = "recipient_ok"
            /\ UNCHANGED result
    /\ UNCHANGED <<data, score, structured_advisory, advisory, llm, cancel_requested,
                   db_saved, email_sent, resend_api_key, payload, calls>>

\* form_data = BeaconSMEInput(**payload["formData"]); score = calculate_beacon_score(form_data)
EmailScore ==
    /\ pc = "recipient_ok"
    /\ IF payload.formData = NoForm \/ RaisesKeyError(payload.formData)
       THEN /\ pc' = "failed"
            /\ result' = [ status |-> 500, detail |-> "Email failed: KeyError" ]
            /\ UNCHANGED <<data, score>>
       ELSE /\ pc' = "email_scored"
            /\ data' = payload.formData
            /\ \E s \in {calculate_beacon_score(payload.formData)} : score' = s
            /\ UNCHANGED result
    /\ UNCHANGED <<structured_advisory, advisory, llm, cancel_requested, db_saved,
                   email_sent, resend_api_key, payload, calls>>

\* the advisory is taken from the payload, or rebuilt from the score
EmailAdvisory ==
    /\ pc = "email_scored"
    /\ IF payload_advisory(payload).raised # "none"
       THEN /\ pc' = "failed"
            /\ result' = [ status |-> 500, detail |-> "Email failed: AttributeError" ]
            /\ UNCHANGED advisory
       ELSE /\ pc' = "advisory_chosen"
            /\ advisory' = email_advisory(payload, score)
            /\ UNCHANGED result
    /\ UNCHANGED <<data, score, structured_advisory, llm, cancel_requested, db_saved,
                   email_sent, resend_api_key, payload, calls>>

\* if not resend_api_key: raise HTTPException(500)
EmailConfigured ==
    /\ pc = "advisory_chosen"
    /\ IF ~resend_api_key
       THEN /\ pc' = "failed"
            /\ result' = [ status |-> 500, detail |-> "Email not configured on server" ]
       ELSE /\ pc' = "configured"
            /\ UNCHANGED result
    /\ UNCHANGED <<data, score, structured_advisory, advisory, llm, cancel_requested,
                   db_saved, email_sent, resend_api_key, payload, calls>>

\* generate_pdf_report(score, form_data_for_email, advisory) and resend.Emails.send
EmailSend ==
    /\ pc = "configured"
    /\ \E delivered \in BOOLEAN :
          /\ calls' = Append(calls, [ op |-> "send", to |-> payload.email,
                                      advisory |-> advisory, ok |-> delivered ])
          /\ IF delivered
             THEN /\ pc' = "done"
                  /\ result' = [ status |-> 200,
                                 message |-> "Report sent to " \o payload.email ]
             ELSE /\ pc' = "failed"
                  /\ result' = [ status |-> 500, detail |-> "Email failed" ]
    /\ UNCHANGED <<data, score, structured_advisory, advisory, llm, cancel_requested,
                   db_saved, email_sent, resend_api_key, payload>>

InitEmail ==
    /\ pc = "received"
    /\ data = NoForm
    /\ score = NoScore
    /\ structured_advisory = NoAdvisory
    /\ advisory = NoAdvisory
    /\ llm = [ kind |-> "idle" ]
    /\ cancel_requested = FALSE
    /\ db_saved = FALSE
    /\ email_sent = FALSE
    /\ result = NoResult
    /\ resend_api_key \in BOOLEAN
    /\ payload \in Payloads
    /\ calls = <<>>

\* the steps of the email_results handler
email_results ==
    EmailRecipient \/ EmailScore \/ EmailAdvisory \/ EmailConfigured \/ EmailSend

SpecEmail == InitEmail /\ [][email_results]_vars

(***************************************************************************)
(* Properties of build_structured_advisory, checked under SpecReport.      *)
(***************************************************************************)
Built == pc = "built"

\* the flags of the list that flag_content knows, in list order
Recognised(flags) ==
    LET known(f) == f \in DOMAIN flag_content
    IN  SelectSeq(flags, known)

\* the flag blocks of a text, in text order
RenderedFlagBlocks(text) ==
    LET isFlagBlock(b) == \E f \in DOMAIN flag_content : b = flag_content[f]
    IN  SelectSeq(text, isFlagBlock)

AdditionalIssuesNote(m) ==
    "*Note: You have " \o ToString(m) \o " critical issues flagged. Top 3 shown above.*"

\* the blocks of a text that are an "additional issues" note
Notes(text) ==
    LET isNote(b) == Len(b) > 16 /\ SubSeq(b, 1, 16) = "*Note: You have "
    IN  SelectSeq(text, isNote)

(* C16: for a report with n >= 1 recognised critical flags the advisory    *)
(* renders exactly min(n, 3) flag blocks; the one-line note is appended    *)
(* iff n > 3, and the count it states is n.                                *)
C16_PriorityTruncation ==
    LET n == Len(Recognised(score.critical_flags))
    IN  Built /\ n >= 1 =>
            /\ Len(RenderedFlagBlocks(structured_advisory)) = Min(n, 3)
            /\ Notes(structured_advisory)
                  = IF n > 3 THEN <<AdditionalIssuesNote(n)>> ELSE <<>>

\* four recognised flags: three blocks and the note
C16_Witness ==
    /\ Built
    /\ Len(Recognised(score.critical_flags)) = 4
    /\ Len(RenderedFlagBlocks(structured_advisory)) = 3
    /\ AdditionalIssuesNote(4) \in Range(structured_advisory)

\* the recognised flags present in the list, in declaration order
ByDeclaration(flags) ==
    LET present(tag) == tag \in Range(flags)
    IN  SelectSeq(CriticalTags, present)

CategoryHead(c) == recs[c.name] \o " (Current: " \o c.grade \o ")"

\* the category recommendation headlines of a text, in text order
RenderedCategoryHeads(text) ==
    LET isHead(b) == \E f \in Range(CategoryFields) : b = CategoryHead(score[f])
    IN  SelectSeq(text, isHead)

\* the lowest category percentage of the report
LowestPercentage ==
    CHOOSE p \in { score[f].percentage : f \in Range(CategoryFields) } :
        \A f \in Range(CategoryFields) : p <= score[f].percentage

\* the lowest percentage of the categories other than one weakest category
SecondLowestPercentage ==
    LET weakest == CHOOSE f \in Range(CategoryFields) : score[f].percentage = LowestPercentage
        others == Range(CategoryFields) \ {weakest}
    IN  CHOOSE p \in { score[f].percentage : f \in others } :
            \A f \in others : p <= score[f].percentage

(* C18: the advisory always renders the recommendation block of the single *)
(* weakest category, renders the block of the second-weakest category iff  *)
(* its percentage is strictly below 60, and never a third block (weakest   *)
(* two at 40 and 75: one block; at 40 and 55: two; second at 60: one).     *)
C18_RecommendationCount ==
    Built =>
        LET heads == RenderedCategoryHeads(structured_advisory)
        IN  /\ Len(heads) = IF SecondLowestPercentage < 600 THEN 2 ELSE 1
            /\ \E f \in Range(CategoryFields) :
                  /\ heads[1] = CategoryHead(score[f])
                  /\ score[f].percentage = LowestPercentage
            /\ Len(heads) = 2 =>
                  \E f \in Range(CategoryFields) :
                      /\ heads[2] = CategoryHead(score[f])
                      /\ heads[2] # heads[1]
                      /\ score[f].percentage = SecondLowestPercentage

\* the second-weakest category at exactly 60: one block
C18_Witness ==
    /\ Built
    /\ LowestPercentage = 400
    /\ SecondLowestPercentage = 600
    /\ Len(RenderedCategoryHeads(structured_advisory)) = 1

\* the "## " headings of a text, in text order
SectionHeadings(text) ==
    LET isHeading(b) == Len(b) >= 3 /\ SubSeq(b, 1, 3) = "## "
    IN  SelectSeq(text, isHeading)

(* C19: the advisory holds its sections in the order executive summary,    *)
(* critical priorities, strategic recommendations, growth opportunities,   *)
(* next steps, each joined to the one before by the fixed separator; the   *)
(* critical priorities are present iff critical_flags is non-empty, the    *)
(* growth opportunities iff opportunity_flags is non-empty, and the other  *)
(* three always.                                                           *)
C19_SectionStructure ==
    Built =>
        /\ SectionHeadings(structured_advisory)
              = <<"## Executive Summary">>
                \o (IF score.critical_flags # <<>>
                    THEN <<"## Critical Priorities (Next 30 Days)">> ELSE <<>>)
                \o <<"## Strategic Recommendations">>
                \o (IF score.opportunity_flags # <<>>
                    THEN <<"## Growth Opportunities">> ELSE <<>>)
                \o <<"## Your Next Steps">>
        /\ structured_advisory[1] = "## Executive Summary"
        /\ \A i \in 2..Len(structured_advisory) :
              structured_advisory[i] \in Range(SectionHeadings(structured_advisory))
                  => structured_advisory[i - 1] = "---"

\* a report without flags: the three sections that are always present
C19_Witness ==
    /\ Built
    /\ score.critical_flags = <<>>
    /\ score.opportunity_flags = <<>>
    /\ Len(SectionHeadings(structured_advisory)) = 3

Branches == {"stable", "building", "survival"}

\* the branches whose immediate actions, or tier description, a text holds
ActionBranches(text) == { b \in Branches : ActionTexts[b][1] \in Range(text) }

HelpBranches(text) == { b \in Branches : HelpTexts[b][1] \in Range(text) }

(* C20: the next steps use three mutually exclusive, exhaustive ranges:    *)
(* for every total_score in [0, 100] exactly one of total_score >= 70,     *)
(* 50 <= total_score < 70 and total_score < 50 is selected, and the        *)
(* immediate actions and the tier description of one advisory come from    *)
(* the same branch.                                                        *)
C20_NextStepsBranches ==
    Built =>
        LET tt == score.total_score
            branch == IF tt >= 700 THEN "stable"
                      ELSE IF tt >= 500 /\ tt < 700 THEN "building"
                      ELSE IF tt < 500 THEN "survival"
                      ELSE "none"
        IN  /\ tt \in 0..1000
            /\ ActionBranches(structured_advisory) = {branch}
            /\ HelpBranches(structured_advisory) = {branch}

\* a total just below 70: both texts of the middle branch
C20_Witness ==
    /\ Built
    /\ score.total_score = 699
    /\ ActionBranches(structured_advisory) = {"building"}
    /\ HelpBranches(structured_advisory) = {"building"}

(***************************************************************************)
(* Properties of the CategoryScore objects, checked under SpecScore.       *)
(***************************************************************************)
(* C21: every category insight generator returns at least one insight for  *)
(* every valid answer set: no CategoryScore of a report has an empty       *)
(* insights list.                                                          *)
C21_InsightsNonEmpty ==
    Scored => \A f \in Range(CategoryFields) : score[f].insights # <<>>

(* C22: grade is a step function of the stored percentage: in every        *)
(* CategoryScore grade is A iff percentage >= 90, B+ iff 80 <= percentage  *)
(* < 90, B iff 70 <= percentage < 80, C+ iff 60 <= percentage < 70, C iff  *)
(* 50 <= percentage < 60, and D iff percentage < 50.                       *)
C22_GradeStepFunction ==
    Scored =>
        \A f \in Range(CategoryFields) :
            LET c == score[f]
            IN  /\ c.grade = "A" <=> c.percentage >= 900
                /\ c.grade = "B+" <=> (800 <= c.percentage /\ c.percentage < 900)
                /\ c.grade = "B" <=> (700 <= c.percentage /\ c.percentage < 800)
                /\ c.grade = "C+" <=> (600 <= c.percentage /\ c.percentage < 700)
                /\ c.grade = "C" <=> (500 <= c.percentage /\ c.percentage < 600)
                /\ c.grade = "D" <=> c.percentage < 500
                /\ c.grade \in {"A", "B+", "B", "C+", "C", "D"}

\* a category exactly on a step, next to one between two steps
C22_Witness ==
    /\ Scored
    /\ score.financial_health.percentage = 800
    /\ score.financial_health.grade = "B+"
    /\ score.customer_strength.percentage = 733
    /\ score.customer_strength.grade = "B"

(***************************************************************************)
(* Properties of email_results, checked under SpecEmail.                   *)
(***************************************************************************)
\* result.advisory of the payload is present and non-empty
CarriesAdvisory(p) ==
    /\ p.result.kind = "dict"
    /\ p.result.advisory # NoContent
    /\ p.result.advisory # <<>>

(* C23: email_results never invokes the narrative service: no call to it   *)
(* has been made at any point of the request, and the advisory used for    *)
(* the PDF is result.advisory of the payload when that is present and      *)
(* non-empty, and otherwise the structured advisory rebuilt from the       *)
(* recomputed score.                                                       *)
C23_EmailReusesAdvisory ==
    /\ llm = [ kind |-> "idle" ]
    /\ \A i \in DOMAIN calls :
          /\ calls[i].op = "send"
          /\ calls[i].advisory =
                IF CarriesAdvisory(payload)
                THEN payload.result.advisory
                ELSE build_structured_advisory(calculate_beacon_score(payload.formData))

\* a report was mailed with the narrative of the payload, not a rebuilt one
C23_Witness ==
    /\ pc = "done"
    /\ Len(calls) = 1
    /\ calls[1].ok
    /\ calls[1].advisory = PolishedText
    /\ payload.formData = NearTierInput

(***************************************************************************)
(* Properties of the sections of the advisory, checked under SpecReport.   *)
(***************************************************************************)
\* the five labels calculate_beacon_score assigns
ReadinessLabels == {LEVEL_SCALE_READY, LEVEL_STABLE, LEVEL_BUILDING,
                    LEVEL_SURVIVAL, LEVEL_RED_ALERT}

\* Python's "key in text" on two strings, character by character
IsSubstring(key, text) ==
    \E i \in 0..(Len(text) - Len(key)) : SubSeq(text, i + 1, i + Len(key)) = key

\* the summary keys occurring in a label
MatchingKeys(label) ==
    { k \in Range(SummaryKeys) : IsSubstring(JoinWords(k), JoinWords(label)) }

(* C24: the executive summary matches the tier: for each of the five       *)
(* readiness labels calculate_beacon_score produces, exactly one of the    *)
(* five summary keys is a substring of the label, and it is the key of     *)
(* that tier, so the summary rendered is the one written for the tier.     *)
C24_SummaryMatchesTier ==
    /\ Cardinality(ReadinessLabels) = 5
    /\ Len(SummaryKeys) = 5
    /\ \A label \in ReadinessLabels :
          /\ MatchingKeys(label) = {Tail(label)}
          /\ { k \in Range(SummaryKeys) : Contains(label, k) } = {Tail(label)}
    /\ Built =>
          /\ score.readiness_level \in ReadinessLabels
          /\ SubSeq(structured_advisory, 1, 4)
                = Summary(Tail(score.readiness_level), score)
    /\ LET unrated == [BaseReport EXCEPT !.readiness_level = <<"Unrated">>]
       IN  /\ MatchingKeys(unrated.readiness_level) = {}
           /\ _generate_executive_summary(unrated)
                 = Summary(<<"Building", "Blocks">>, unrated)

\* the tier whose key is tried last got its own summary
C24_Witness ==
    /\ Built
    /\ score.readiness_level = LEVEL_RED_ALERT
    /\ score.total_score = 299
    /\ structured_advisory[2] = "**Your Business:** (siren) Red Alert"
    /\ structured_advisory[3] = "Urgent challenges. With a 29.9/100 score"

\* the position, in declaration order, of the weakest category outside a set:
\* lowest percentage first, the earlier declared of two equal ones first
WeakestOutside(excluded) ==
    LET rest == DOMAIN CategoryFields \ excluded
        pct(i) == score[CategoryFields[i]].percentage
    IN  CHOOSE i \in rest :
            \A j \in rest : pct(i) < pct(j) \/ (pct(i) = pct(j) /\ i <= j)

(* C25: the strategic recommendations are ordered by a stable ascending    *)
(* sort on percentage: categories of equal percentage rank in the order    *)
(* Financial Health, Customer Strength, Operational Maturity, Financial    *)
(* Intelligence, Growth & Resilience, so the weakest and the second        *)
(* weakest category are determined for every report (all five equal:       *)
(* Financial Health weakest, Customer Strength second).                    *)
C25_StableSortByPercentage ==
    Built =>
        LET heads == RenderedCategoryHeads(structured_advisory)
            first == WeakestOutside({})
            second == WeakestOutside({first})
            allEqual == \A f \in Range(CategoryFields) :
                            score[f].percentage = score.financial_health.percentage
        IN  /\ Len(heads) >= 1
            /\ heads[1] = CategoryHead(score[CategoryFields[first]])
            /\ Len(heads) >= 2 => heads[2] = CategoryHead(score[CategoryFields[second]])
            /\ allEqual =>
                  /\ heads[1] = CategoryHead(score.financial_health)
                  /\ Len(heads) >= 2 => heads[2] = CategoryHead(score.customer_strength)

\* all five categories at 55%: Financial Health, then Customer Strength
C25_Witness ==
    /\ Built
    /\ \A f \in Range(CategoryFields) : score[f].percentage = 550
    /\ RenderedCategoryHeads(structured_advisory)
          = <<CategoryHead(score.financial_health), CategoryHead(score.customer_strength)>>

\* the blocks of the strategic-recommendations section of an advisory
RecsBlocks(text) ==
    LET start == CHOOSE i \in DOMAIN text : text[i] = "## Strategic Recommendations"
        stop == CHOOSE j \in (start + 1)..Len(text) :
                    /\ text[j] = "---"
                    /\ \A k \in (start + 1)..(j - 1) : text[k] # "---"
    IN  SubSeq(text, start, stop - 1)

\* the industries that have an insight block
IndustryKeys == {"Retail/Trade", "Food & Beverage", "Professional Services",
                 "Logistics & Transportation", "Beauty & Personal Care",
                 "Manufacturing/Production"}

IsIndustryBlock(b) == Len(b) >= 22 /\ SubSeq(b, 1, 22) = "### Industry Insight: "

IsPainPointBlock(b) ==
    b \in {"### Tactical Growth Plan", "### Cash Flow Rescue Plan",
           "### Team Management Fix", "### Cost Optimization Plan",
           "### Founder Liberation Plan", "### Quality Control System",
           "### Strategic Clarity Framework", "### Competitive Response Plan",
           "### Optimization Playbook"}

(* C26: the pain-point and industry blocks are silent no-ops when          *)
(* unmatched: the pain-point block is appended after the category blocks   *)
(* iff primary_pain_point is one of the 9 fixed keys, the industry block   *)
(* after it iff industry is one of the fixed industry keys; an unmatched   *)
(* value adds no text and no separator and raises nothing.  Every one of   *)
(* the 9 schema pain points yields a block; the schema industries without  *)
(* a key (Hospitality, Agriculture, Other among them) yield none.          *)
C26_UnmatchedContextIsSilent ==
    /\ pc # "failed"
    /\ Cardinality(V("primaryPainPoint")) = 9
    /\ {"Hospitality", "Agriculture", "Other"} \subseteq V("industry") \ IndustryKeys
    /\ IndustryKeys \subseteq V("industry")
    /\ Built =>
          LET sec == RecsBlocks(structured_advisory)
              n == 1 + 2 * Len(RenderedCategoryHeads(sec))
              matchedPain == score.primary_pain_point \in V("primaryPainPoint")
              matchedIndustry == score.industry \in IndustryKeys
              painPart == IF matchedPain
                          THEN pain_recs(score)[score.primary_pain_point] ELSE <<>>
              industryPart == IF matchedIndustry
                              THEN <<"### Industry Insight: " \o score.industry>> ELSE <<>>
          IN  /\ Len(SelectSeq(sec, IsPainPointBlock)) = IF matchedPain THEN 1 ELSE 0
              /\ Len(SelectSeq(sec, IsIndustryBlock)) = IF matchedIndustry THEN 1 ELSE 0
              /\ RenderedCategoryHeads(SubSeq(sec, 1, n)) = RenderedCategoryHeads(sec)
              /\ SubSeq(sec, n + 1, Len(sec)) = painPart \o industryPart
              /\ "" \notin Range(structured_advisory)
              /\ Len(SelectSeq(structured_advisory, LAMBDA b : b = "---"))
                    = Len(SectionHeadings(structured_advisory))

\* neither the pain point nor the industry has a block: category blocks only
C26_Witness ==
    /\ Built
    /\ score.primary_pain_point = UnlistedPainPoint
    /\ score.industry = "Hospitality"
    /\ Len(RecsBlocks(structured_advisory))
          = 1 + 2 * Len(RenderedCategoryHeads(structured_advisory))

(***************************************************************************)
(* Properties of a report and of its advisory, checked under Spec.         *)
(***************************************************************************)
\* the branch of the next steps that belongs to a readiness tier
BranchOfTier(label) ==
    IF label \in {LEVEL_SCALE_READY, LEVEL_STABLE} THEN "stable"
    ELSE IF label = LEVEL_BUILDING THEN "building"
    ELSE "survival"

(* C27: the advisory never contradicts itself about the tier: for every    *)
(* report calculate_beacon_score produces, the next steps use the >= 70    *)
(* branch iff the tier is Scale-Ready or Stable Foundation, the 50-69      *)
(* branch iff it is Building Blocks, and the < 50 branch iff it is         *)
(* Survival Mode or Red Alert.                                             *)
C27_NextStepsAgreeWithTier ==
    structured_advisory # NoAdvisory =>
        /\ score = calculate_beacon_score(data)
        /\ ActionBranches(structured_advisory) = {BranchOfTier(score.readiness_level)}
        /\ HelpBranches(structured_advisory) = {BranchOfTier(score.readiness_level)}

(***************************************************************************)
(* Properties of the flags taken together, checked under SpecScore.        *)
(***************************************************************************)
(* C28: a business flagged with a cash-flow emergency is never praised for *)
(* financial discipline: for every valid answer set, critical_flags        *)
(* containing CASH_CRISIS implies that opportunity_flags does not contain  *)
(* FINANCIAL_DISCIPLINE.                                                   *)
C28_CashCrisisExcludesDiscipline ==
    Scored /\ HasCritical("CASH_CRISIS") => ~HasOpportunity("FINANCIAL_DISCIPLINE")

\* the most a business in a cash crisis can score on financial health
C28_Witness ==
    /\ Scored
    /\ HasCritical("CASH_CRISIS")
    /\ fh_raw(data) = 15
    /\ score.financial_health.score = 150
    /\ ~HasOpportunity("FINANCIAL_DISCIPLINE")

(***************************************************************************)
(* Properties of the steps after the polish, checked under Spec.           *)
(***************************************************************************)
\* the collaborator calls of one kind made so far
CallsOf(op) == SelectSeq(calls, LAMBDA c : c.op = op)

(* C29: in generate_report the failures of the collaborators that run      *)
(* after the advisory is produced are not fatal: when the insert fails, or *)
(* the email fails or is not configured, the operation still returns the   *)
(* successful result with the computed scores, flags and advisory;         *)
(* email_sent in the result is true iff the email was sent; the insert and *)
(* the email are attempted only after the polish step has returned, and    *)
(* with the final advisory.                                                *)
C29_LateFailuresNotFatal ==
    /\ pc = "failed" => calls = <<>>
    /\ calls # <<>> =>
          /\ Polished
          /\ llm.kind \in {"raised", "returned"}
          /\ calls[1].op = "insert"
          /\ \A i \in DOMAIN calls : calls[i].advisory = advisory
          /\ Len(CallsOf("insert")) = 1
          /\ Len(CallsOf("send")) <= 1
          /\ \A i \in 2..Len(calls) : calls[i].op = "send" /\ calls[i].to = data.email
    /\ ~resend_api_key => CallsOf("send") = <<>>
    /\ pc = "done" =>
          LET s == calculate_beacon_score(data)
          IN  /\ result.status = 200
              /\ result.advisory = advisory
              /\ result.total_score = s.total_score
              /\ result.readiness_level = s.readiness_level
              /\ result.breakdown = [ f \in Range(CategoryFields) |-> Breakdown(s[f]) ]
              /\ result.flags = [ critical |-> s.critical_flags,
                                  opportunities |-> s.opportunity_flags ]
              /\ result.email_sent <=> \E i \in DOMAIN calls :
                                          calls[i].op = "send" /\ calls[i].ok
              /\ result.email_sent = email_sent

\* a report returned although the insert and the send both failed
C29_Witness ==
    /\ pc = "done"
    /\ result.status = 200
    /\ Len(calls) = 2
    /\ ~calls[1].ok
    /\ ~calls[2].ok
    /\ ~db_saved
    /\ ~result.email_sent
    /\ result.advisory = advisory
    /\ llm.kind = "returned"
    /\ TryRaises(llm) = "none"

(***************************************************************************)
(* The legacy scorecard (src/app.py).  The en dashes of its answer strings *)
(* are written "-" and the sign of "<=$1K" in two characters.              *)
(***************************************************************************)
ScorecardSchema ==
    [ revenue |-> <<"Under $10K", "$10K-$50K", "$50K-$250K", "$250K-$1M", "Over $1M">>,
      profit_margin_known |-> <<"Yes", "No">>,
      monthly_burn |-> <<"Unknown", "<=$1K", "$1K-$5K", "$5K-$20K", "$20K+">>,
      cac_tracked |-> <<"Yes", "No">>,
      retention_rate |-> <<"<10%", "10-25%", "25-50%", "50-75%", "75%+">>,
      digital_campaigns |-> <<"No", "Sometimes", "Consistently">>,
      analytics_tools |-> <<"No", "Basic tools (Excel, etc.)",
                            "Advanced or custom dashboards">>,
      crm_used |-> <<"Yes", "No">>,
      data_mgmt |-> <<"Scattered or manual", "Somewhat structured",
                      "Centralized and automated">>,
      sops_doc |-> <<"No", "Somewhat", "Fully documented">>,
      team_size |-> <<"0 (solo)", "1-3", "4-10", "11-50", "50+">>,
      pain_point |-> <<"Not growing", "Systems are chaotic",
                       "Don't know what to optimize", "Need funding",
                       "Growing fast, need structure">> ]

(* round(x) of the double x that a few float operations compute for the    *)
(* rational num / den: x lies within 2^-40 of num / den, so round(x) is    *)
(* the integer nearest to num / den, and either neighbour when num / den   *)
(* is exactly halfway between two integers.                                *)
RoundNear(num, den) ==
    LET q == num \div den
        r == num % den
    IN  IF 2 * r < den THEN {q}
        ELSE IF 2 * r > den THEN {q + 1}
        ELSE {q, q + 1}

score_financial_health(d) ==
    LET revenue_map == "Under $10K" :> 1 @@ "$10K-$50K" :> 2 @@ "$50K-$250K" :> 3 @@
                       "$250K-$1M" :> 4 @@ "Over $1M" :> 5
        burn_map == "Unknown" :> 1 @@ "<=$1K" :> 2 @@ "$1K-$5K" :> 3 @@
                    "$5K-$20K" :> 4 @@ "$20K+" :> 5
        sc == revenue_map[d.revenue]
              + (IF d.profit_margin_known = "Yes" THEN 1 ELSE 0)
              + burn_map[d.monthly_burn]
    IN  RoundNear(sc * 25, 11)

score_growth_readiness(d) ==
    LET retention_map == "<10%" :> 1 @@ "10-25%" :> 2 @@ "25-50%" :> 3 @@
                         "50-75%" :> 4 @@ "75%+" :> 5
        campaign_map == "No" :> 1 @@ "Sometimes" :> 3 @@ "Consistently" :> 5
        sc == (IF d.cac_tracked = "Yes" THEN 1 ELSE 0)
              + retention_map[d.retention_rate]
              + campaign_map[d.digital_campaigns]
    IN  RoundNear(sc * 25, 11)

score_digital_maturity(d) ==
    LET analytics_map == "No" :> 1 @@ "Basic tools (Excel, etc.)" :> 3 @@
                         "Advanced or custom dashboards" :> 5
        data_map == "Scattered or manual" :> 1 @@ "Somewhat structured" :> 3 @@
                    "Centralized and automated" :> 5
        sc == analytics_map[d.analytics_tools]
              + (IF d.crm_used = "Yes" THEN 1 ELSE 0)
              + data_map[d.data_mgmt]
    IN  RoundNear(sc * 25, 11)

\* the three answers scored against 11 like those of the other functions
score_operational_efficiency_Max11(d) ==
    LET sop_map == "No" :> 1 @@ "Somewhat" :> 3 @@ "Fully documented" :> 5
        team_map == "0 (solo)" :> 1 @@ "1-3" :> 2 @@ "4-10" :> 3 @@
                    "11-50" :> 4 @@ "50+" :> 5
        pain_map == "Not growing" :> 1 @@ "Systems are chaotic" :> 2 @@
                    "Don't know what to optimize" :> 3 @@ "Need funding" :> 4 @@
                    "Growing fast, need structure" :> 5
        sc == sop_map[d.sops_doc] + team_map[d.team_size] + pain_map[d.pain_point]
    IN  RoundNear(sc * 25, 11)

\* round((score / 15) * 11 * (25 / 11)): the rational is score * 25 / 15
score_operational_efficiency(d) ==
    LET sop_map == "No" :> 1 @@ "Somewhat" :> 3 @@ "Fully documented" :> 5
        team_map == "0 (solo)" :> 1 @@ "1-3" :> 2 @@ "4-10" :> 3 @@
                    "11-50" :> 4 @@ "50+" :> 5
        pain_map == "Not growing" :> 1 @@ "Systems are chaotic" :> 2 @@
                    "Don't know what to optimize" :> 3 @@ "Need funding" :> 4 @@
                    "Growing fast, need structure" :> 5
        sc == sop_map[d.sops_doc] + team_map[d.team_size] + pain_map[d.pain_point]
    IN  RoundNear(sc * 25, 15)

\* the label generate_full_report gives a total
label(tot) ==
    IF tot <= 40 THEN "Foundation Stage"
    ELSE IF tot <= 60 THEN "Scaling Cautiously"
    ELSE IF tot <= 80 THEN "Growth Ready"
    ELSE "Built for Scale"

\* generate_insight: the text of the response, or the sentence of an except clause
generate_insight(outcome) ==
    IF outcome = "OpenAIError"
    THEN "Unable to generate insights at this time. Please try again later."
    ELSE IF outcome = "Exception"
    THEN "An unexpected error occurred. Please try again later."
    ELSE "A growth advisory in two paragraphs."

(* The ScorecardInput objects scored: the i-th listed value of every field *)
(* and the lowest- and the highest-scoring answers, each with every        *)
(* combination of the answers one scoring function reads.                  *)
LegacyInputs ==
    LET S == ScorecardSchema
        A(f) == Range(S[f])
        nth(i) == [ f \in DOMAIN S |-> S[f][Min(i, Len(S[f]))] ] @@ [ industry |-> "Retail" ]
        lowest == [nth(1) EXCEPT !.profit_margin_known = "No", !.cac_tracked = "No",
                                 !.crm_used = "No"]
        highest == [nth(5) EXCEPT !.profit_margin_known = "Yes", !.cac_tracked = "Yes",
                                  !.crm_used = "Yes"]
        around(b) ==
            { [b EXCEPT !.revenue = a1, !.profit_margin_known = a2, !.monthly_burn = a3] :
                a1 \in A("revenue"), a2 \in A("profit_margin_known"),
                a3 \in A("monthly_burn") }
            \cup
            { [b EXCEPT !.cac_tracked = a1, !.retention_rate = a2,
                        !.digital_campaigns = a3] :
                a1 \in A("cac_tracked"), a2 \in A("retention_rate"),
                a3 \in A("digital_campaigns") }
            \cup
            { [b EXCEPT !.analytics_tools = a1, !.crm_used = a2, !.data_mgmt = a3] :
                a1 \in A("analytics_tools"), a2 \in A("crm_used"), a3 \in A("data_mgmt") }
            \cup
            { [b EXCEPT !.sops_doc = a1, !.team_size = a2, !.pain_point = a3] :
                a1 \in A("sops_doc"), a2 \in A("team_size"), a3 \in A("pain_point") }
    IN  UNION { around(b) : b \in {lowest, highest} \cup { nth(i) : i \in 1..MaxLevel } }

\* the four sub-scores, their total and the range check on it
LegacyScore ==
    /\ pc = "start"
    /\ \E f \in score_financial_health(data), g \in score_growth_readiness(data),
          dm \in score_digital_maturity(data), o \in score_operational_efficiency(data) :
          LET tot == f + g + dm + o
          IN  /\ score' = [ financial |-> f, growth |-> g, digital |-> dm,
                            operations |-> o, total |-> tot ]
              /\ IF tot < 0 \/ tot > 100
                 THEN /\ pc' = "failed"
                      /\ result' = [ status |-> 500, detail |-> "Internal server error" ]
                 ELSE /\ pc' = "legacy_scored"
                      /\ UNCHANGED result
    /\ UNCHANGED <<data, structured_advisory, advisory, llm, cancel_requested,
                   db_saved, email_sent, resend_api_key, payload, calls>>

\* the label, the insight (the service answers or fails) and the dict returned
LegacyReport ==
    /\ pc = "legacy_scored"
    /\ \E outcome \in {"text", "OpenAIError", "Exception"} :
          result' = [ status |-> 200, score |-> score.total, label |-> label(score.total),
                      sub_scores |-> [ financial |-> score.financial,
                                       growth |-> score.growth,
                                       digital |-> score.digital,
                                       operations |-> score.operations ],
                      insights |-> generate_insight(outcome) ]
    /\ pc' = "done"
    /\ UNCHANGED <<data, score, structured_advisory, advisory, llm, cancel_requested,
                   db_saved, email_sent, resend_api_key, payload, calls>>

InitLegacy == data \in LegacyInputs /\ resend_api_key = TRUE /\ Unstarted

\* the steps of the legacy handler
generate_full_report == LegacyScore \/ LegacyReport

SpecLegacy == InitLegacy /\ [][generate_full_report]_vars

(***************************************************************************)
(* Properties of the legacy scorecard, checked under SpecLegacy.           *)
(***************************************************************************)
(* C30: in the legacy scorecard, for every valid ScorecardInput each of    *)
(* the four sub-scores is an integer in [0, 25] and their total is in      *)
(* [0, 100], so the "Invalid score calculation" branch is never taken, and *)
(* the label is Foundation Stage for a total <= 40, Scaling Cautiously for *)
(* <= 60, Growth Ready for <= 80 and Built for Scale above 80.             *)
C30_LegacyScoresInRange ==
    /\ pc # "failed"
    /\ \A fn \in {score_financial_health(data), score_growth_readiness(data),
                  score_digital_maturity(data), score_operational_efficiency(data)} :
          Cardinality(fn) = 1 /\ fn \subseteq 0..25
    /\ pc \in {"legacy_scored", "done"} =>
          /\ \A k \in {"financial", "growth", "digital", "operations"} : score[k] \in 0..25
          /\ score.total = score.financial + score.growth + score.digital
                           + score.operations
          /\ score.total \in 0..100
    /\ pc = "done" =>
          /\ result.status = 200
          /\ result.score = score.total
          /\ result.label = "Foundation Stage" <=> score.total <= 40
          /\ result.label = "Scaling Cautiously" <=> (40 < score.total /\ score.total <= 60)
          /\ result.label = "Growth Ready" <=> (60 < score.total /\ score.total <= 80)
          /\ result.label = "Built for Scale" <=> score.total > 80

\* the best answers everywhere: four sub-scores of 25, total 100
C30_Witness ==
    /\ pc = "done"
    /\ score.operations = 25
    /\ score.financial = 25
    /\ score.total = 100
    /\ result.label = "Built for Scale"

====
